---------------------------- MODULE Spec2Model ----------------------------
(***************************************************************************)
(* Model of the archival crawler of the anti-scam tooling                  *)
(* (src/extraction/archival_crawler.py): URL normalisation and domain      *)
(* classification, link extraction, page archiving and the run_mapping     *)
(* crawl loop.                                                             *)
(*                                                                         *)
(* Representation.  A URL string is modelled by the components urlparse    *)
(* splits it into: [scheme, host, port, path, ext, frag].  host is a       *)
(* sequence of one-character strings (str.lstrip works on characters);     *)
(* path is a sequence of tokens and "hint in path" is modelled as "some    *)
(* token equals the hint" (no token of the universe contains a hint as a   *)
(* proper substring); ext is the extension the URL string ends with.       *)
(* host is the host text of the netloc as written (an IPv6 literal with    *)
(* its brackets); the userinfo part of a netloc is not modelled.           *)
(* The browser, the login collaborator and the site are the environment:   *)
(* their answers are chosen with \E from the small sets defined below.     *)
(* The file system is assumed to work (save_text and write_json succeed).  *)
(***************************************************************************)
EXTENDS Integers, Sequences, FiniteSets, TLC

(***************************************************************************)
(* Bounds of the model.                                                    *)
(***************************************************************************)
MaxPagesBound == 4
MaxDepthBound == 2
MaxAnchors == 3
MaxElements == 2
MaxFound == 3
MaxScanPages == 3

(***************************************************************************)
(* Python's None for the differently typed optional values.                *)
(***************************************************************************)
NoPort == -1
NoStatus == -1
NoPath == <<>>
NoError == "none"
NoneUrl == [none |-> TRUE]
RaisedValueError == [raised |-> "ValueError"]

(***************************************************************************)
(* Program constants.                                                      *)
(***************************************************************************)
LOGIN_PATH_HINTS == {"login", "signin", "sign-in", "sign_in"}
LOGOUT_PATH_HINTS == {"logout", "log-out", "signout", "sign-out", "logoff"}
REGISTER_PATH_HINTS ==
    {"register", "signup", "sign-up", "create-account", "create_account"}
SKIP_EXTENSIONS ==
    {".png", ".jpg", ".jpeg", ".gif", ".svg", ".css", ".js", ".ico", ".pdf",
     ".zip", ".rar", ".7z", ".tar", ".gz", ".mp4", ".mp3", ".webm", ".webp"}
ALLOWED_SCHEMES == {"http", "https"}
INFRA_DOMAIN_BLOCKLIST ==
    { <<"g","o","o","g","l","e",".","c","o","m">>,
      <<"g","o","o","g","l","e",".","c","h">>,
      <<"c","o","n","s","e","n","t",".","g","o","o","g","l","e",".","c","o","m">>,
      <<"p","o","l","i","c","i","e","s",".","g","o","o","g","l","e",".","c","o","m">>,
      <<"a","b","o","u","t",".","g","o","o","g","l","e",".","c","o","m">>,
      <<"a","b","o","u","t",".","g","o","o","g","l","e">>,
      <<"y","o","u","t","u","b","e",".","c","o","m">>,
      <<"c","o","n","s","e","n","t",".","y","o","u","t","u","b","e",".","c","o","m">>,
      <<"a","c","c","o","u","n","t","s",".","g","o","o","g","l","e",".","c","o","m">>,
      <<"g",".","c","o">>,
      <<"g","o","o",".","g","l">>,
      <<"f","a","c","e","b","o","o","k",".","c","o","m">>,
      <<"i","n","s","t","a","g","r","a","m",".","c","o","m">>,
      <<"t","w","i","t","t","e","r",".","c","o","m">>,
      <<"x",".","c","o","m">> }
HIGH_VALUE_EXTERNAL_DOMAINS == {}
AUTH_WALL_REDIRECT_THRESHOLD == 2
MaxPort == 65535

(***************************************************************************)
(* Characters and strings.                                                 *)
(***************************************************************************)
UpperToLower ==
    [c \in {"A", "C", "F", "H", "M", "O", "W", "X"} |->
        CASE c = "A" -> "a" [] c = "C" -> "c" [] c = "F" -> "f"
          [] c = "H" -> "h" [] c = "M" -> "m" [] c = "O" -> "o"
          [] c = "W" -> "w" [] c = "X" -> "x"]

\* str.lower() on one character
LowerChar(c) == IF c \in DOMAIN UpperToLower THEN UpperToLower[c] ELSE c

\* str.lower() on a sequence of characters
Lower(s) == [i \in 1..Len(s) |-> LowerChar(s[i])]

\* str.lower() on a scheme (urlparse returns the scheme lower-cased)
SchemeLower(s) ==
    CASE s = "HTTP" -> "http"
      [] s = "HTTPS" -> "https"
      [] s = "Http" -> "http"
      [] s = "MAILTO" -> "mailto"
      [] OTHER -> s

\* str.lstrip(chars): removes every leading character that is in chars
RECURSIVE LStrip(_, _)
LStrip(s, chars) ==
    IF s # <<>> /\ Head(s) \in chars THEN LStrip(Tail(s), chars) ELSE s

\* the character set of the argument "www."
WwwChars == {"w", "."}

\* str.split("."): the labels of a host
RECURSIVE SplitLabels(_, _)
SplitLabels(s, cur) ==
    IF s = <<>> THEN <<cur>>
    ELSE IF Head(s) = "." THEN <<cur>> \o SplitLabels(Tail(s), <<>>)
    ELSE SplitLabels(Tail(s), Append(cur, Head(s)))

\* ".".join(labels)
RECURSIVE JoinLabels(_)
JoinLabels(ls) ==
    IF ls = <<>> THEN <<>>
    ELSE IF Len(ls) = 1 THEN ls[1]
    ELSE ls[1] \o <<".">> \o JoinLabels(Tail(ls))

(***************************************************************************)
(* URLs.  Url builds the components urlparse yields for a candidate.       *)
(***************************************************************************)
Url(scheme, host, port, path, ext, frag) ==
    [scheme |-> scheme, host |-> host, port |-> port, path |-> path,
     ext |-> ext, frag |-> frag]

\* the public-suffix data the bundled tldextract snapshot resolves with
PublicSuffixes ==
    { <<"c","o","m">>, <<"c","o">>, <<"c","h">>, <<"g","l">>, <<"u","k">>,
      <<"c","o",".","u","k">> }

\* tldextract: the longest public suffix the host ends with, and the label
\* before it
TldExtract(host) ==
    LET ls == SplitLabels(host, <<>>)
        n == Len(ls)
        idx == {i \in 1..n : JoinLabels(SubSeq(ls, i, n)) \in PublicSuffixes}
        first == CHOOSE i \in idx : \A j \in idx : i <= j
    IN  IF idx = {} THEN [domain |-> ls[n], suffix |-> <<>>]
        ELSE [domain |-> IF first > 1 THEN ls[first - 1] ELSE <<>>,
              suffix |-> JoinLabels(SubSeq(ls, first, n))]

\* str.partition(":")[0]
RECURSIVE BeforeColon(_)
BeforeColon(s) ==
    IF s = <<>> \/ Head(s) = ":" THEN <<>>
    ELSE <<Head(s)>> \o BeforeColon(Tail(s))

\* the host text of the netloc is an IP literal written in brackets
Bracketed(host) == host # <<>> /\ Head(host) = "[" /\ host[Len(host)] = "]"

HasColon(host) == \E i \in 1..Len(host) : host[i] = ":"

\* urlparse's hostname: the text inside the brackets, else the text before
\* the first colon of the host text
Hostname(host) ==
    IF Bracketed(host) THEN SubSeq(host, 2, Len(host) - 1)
    ELSE BeforeColon(host)

\* urlparse's port raises ValueError: the text after the first colon of an
\* unbracketed host is no integer, or the port is out of range
PortRaises(u) ==
    \/ ~Bracketed(u.host) /\ HasColon(u.host)
    \/ u.port # NoPort /\ (u.port < 0 \/ u.port > MaxPort)

_extract_host(url) == LStrip(Lower(Hostname(url.host)), WwwChars)

_registrable_domain(url) ==
    LET host == _extract_host(url)
        extracted == TldExtract(host)
    IN  IF host = <<>> THEN <<>>
        ELSE IF extracted.domain # <<>> /\ extracted.suffix # <<>>
             THEN extracted.domain \o <<".">> \o extracted.suffix
        ELSE host

_is_same_site(url, home_domain) ==
    IF home_domain = <<>> THEN FALSE
    ELSE _registrable_domain(url) = home_domain

\* the empty candidate string
EmptyCandidate == Url("", <<>>, NoPort, <<>>, "", "")

\* Returns NoneUrl for None and RaisedValueError when parsed.port raises.
_normalize_url(candidate) ==
    LET scheme == SchemeLower(candidate.scheme)
        host == LStrip(Lower(Hostname(candidate.host)), WwwChars)
    IN  IF candidate = EmptyCandidate THEN NoneUrl
        ELSE IF scheme = "" \/ scheme \in {"mailto", "tel"} THEN NoneUrl
        ELSE IF scheme \notin ALLOWED_SCHEMES THEN NoneUrl
        ELSE IF host = <<>> THEN NoneUrl
        ELSE IF PortRaises(candidate) THEN RaisedValueError
        ELSE Url(scheme, host,
                 IF candidate.port # NoPort /\ candidate.port # 0
                 THEN candidate.port ELSE NoPort,
                 candidate.path, candidate.ext, "")

\* "_normalize_url(u) or u"
NormalizeOr(u) ==
    IF _normalize_url(u) = NoneUrl THEN u ELSE _normalize_url(u)

_contains_hint(url, hints) ==
    \E i \in 1..Len(url.path) : url.path[i] \in hints

_looks_like_login(url) == _contains_hint(url, LOGIN_PATH_HINTS)

_looks_like_logout(url) == _contains_hint(url, LOGOUT_PATH_HINTS)

_looks_like_register(url) == _contains_hint(url, REGISTER_PATH_HINTS)

_is_static_asset(url) == url.ext \in SKIP_EXTENSIONS

_is_infra_domain(domain, home_domain) ==
    domain # <<>> /\ domain # home_domain /\ domain \in INFRA_DOMAIN_BLOCKLIST

(***************************************************************************)
(* extract_links.  raw_links is what the page returns for its anchors      *)
(* (absolute hrefs, so urljoin leaves them as they are).  The result is    *)
(* [raised |-> ..., links |-> ...]: a ValueError of _normalize_url is not  *)
(* caught in extract_links.                                                *)
(***************************************************************************)
\* variant of LinkSurvives: with allow_external every external link passes
LinkSurvivesAnyExternal(normalized, home_domain, allow_external, avoid_auth_links, allowlist, infra_blocklist, blocked_domains) ==
    LET domain == _registrable_domain(normalized)
    IN  /\ ~(blocked_domains # {} /\ domain \in blocked_domains)
        /\ ~(infra_blocklist # {} /\ _is_infra_domain(domain, home_domain))
        /\ ~_is_static_asset(normalized)
        /\ ~_looks_like_logout(normalized)
        /\ ~(avoid_auth_links
             /\ (_looks_like_login(normalized)
                 \/ _looks_like_register(normalized)))
        /\ (_is_same_site(normalized, home_domain) \/ allow_external)

LinkSurvives(normalized, home_domain, allow_external, avoid_auth_links, allowlist, infra_blocklist, blocked_domains) ==
    LET domain == _registrable_domain(normalized)
    IN  /\ ~(blocked_domains # {} /\ domain \in blocked_domains)
        /\ ~(infra_blocklist # {} /\ _is_infra_domain(domain, home_domain))
        /\ ~_is_static_asset(normalized)
        /\ ~_looks_like_logout(normalized)
        /\ ~(avoid_auth_links
             /\ (_looks_like_login(normalized)
                 \/ _looks_like_register(normalized)))
        /\ (_is_same_site(normalized, home_domain)
            \/ (allow_external /\ domain \in allowlist))

\* variant of ExtractLoop: a kept link is not remembered in seen
RECURSIVE ExtractLoopNoSeen(_, _, _, _, _, _, _, _, _)
ExtractLoopNoSeen(raw_links, candidates, seen_here, home_domain, allow_external, avoid_auth_links, allowlist, infra_blocklist, blocked_domains) ==
    IF raw_links = <<>> THEN [raised |-> FALSE, links |-> candidates]
    ELSE LET normalized == _normalize_url(Head(raw_links))
             rest == Tail(raw_links)
         IN  IF normalized = RaisedValueError
             THEN [raised |-> TRUE, links |-> <<>>]
             ELSE IF normalized = NoneUrl \/ normalized \in seen_here
                     \/ ~LinkSurvives(normalized, home_domain, allow_external,
                                      avoid_auth_links, allowlist,
                                      infra_blocklist, blocked_domains)
             THEN ExtractLoopNoSeen(rest, candidates, seen_here, home_domain,
                                    allow_external, avoid_auth_links,
                                    allowlist, infra_blocklist,
                                    blocked_domains)
             ELSE ExtractLoopNoSeen(rest, Append(candidates, normalized),
                                    seen_here, home_domain, allow_external,
                                    avoid_auth_links, allowlist,
                                    infra_blocklist, blocked_domains)

RECURSIVE ExtractLoop(_, _, _, _, _, _, _, _, _)
ExtractLoop(raw_links, candidates, seen_here, home_domain, allow_external, avoid_auth_links, allowlist, infra_blocklist, blocked_domains) ==
    IF raw_links = <<>> THEN [raised |-> FALSE, links |-> candidates]
    ELSE LET normalized == _normalize_url(Head(raw_links))
             rest == Tail(raw_links)
         IN  IF normalized = RaisedValueError
             THEN [raised |-> TRUE, links |-> <<>>]
             ELSE IF normalized = NoneUrl \/ normalized \in seen_here
                     \/ ~LinkSurvives(normalized, home_domain, allow_external,
                                      avoid_auth_links, allowlist,
                                      infra_blocklist, blocked_domains)
             THEN ExtractLoop(rest, candidates, seen_here, home_domain,
                              allow_external, avoid_auth_links, allowlist,
                              infra_blocklist, blocked_domains)
             ELSE ExtractLoop(rest, Append(candidates, normalized),
                              seen_here \cup {normalized}, home_domain,
                              allow_external, avoid_auth_links, allowlist,
                              infra_blocklist, blocked_domains)

\* anchors is either the list of hrefs or AnchorsFail (eval_on_selector_all
\* raised PlaywrightError, which extract_links answers with no links)
AnchorsFail == <<[raised |-> "PlaywrightError"]>>

extract_links(anchors, home_domain, allow_external, avoid_auth_links, external_allowlist, infra_blocklist, blocked_domains) ==
    IF anchors = AnchorsFail THEN [raised |-> FALSE, links |-> <<>>]
    ELSE ExtractLoop(anchors, <<>>, {}, home_domain, allow_external,
                     avoid_auth_links, external_allowlist, infra_blocklist,
                     blocked_domains)

(***************************************************************************)
(* archive_page: html_ok / shot_ok tell whether page.content() and the     *)
(* screenshot succeeded (each may raise PlaywrightError, caught per half). *)
(* An artifact path is <<counter, extension>>.                             *)
(***************************************************************************)
PageRecord(url, original_url, status_code, content_path, screenshot_path, depth, error) ==
    [url |-> url, original_url |-> original_url, status_code |-> status_code,
     content_path |-> content_path, screenshot_path |-> screenshot_path,
     depth |-> depth, error |-> error]

archive_page(counter, original_url, final_url, depth, status_code, html_ok, shot_ok) ==
    LET html_path == IF html_ok THEN <<counter, "html">> ELSE NoPath
        error1 == IF html_ok THEN NoError ELSE "html_capture_failed"
        screenshot_path == IF shot_ok THEN <<counter, "png">> ELSE NoPath
        error2 == IF shot_ok THEN error1
                  ELSE IF error1 = NoError THEN "screenshot_failed"
                  ELSE error1
    IN  PageRecord(final_url, original_url, status_code, html_path,
                   screenshot_path, depth, error2)

(***************************************************************************)
(* The environment: the URLs of the modelled web, what a page returns for  *)
(* its anchors, how a navigation ends, how session setup and login end.    *)
(***************************************************************************)
HomeHost == <<"h", ".", "c", "o", "m">>
WwwHomeHost == <<"w", "w", "w", ".", "h", ".", "c", "o", "m">>
UpperHomeHost == <<"W", "W", "W", ".", "H", ".", "C", "O", "M">>
ForeignHost == <<"f", ".", "c", "o", "m">>
InfraHost == <<"x", ".", "c", "o", "m">>

HomeRoot == Url("https", HomeHost, NoPort, <<>>, "", "")
HomeRootWww == Url("https", WwwHomeHost, NoPort, <<>>, "", "top")
HomeA == Url("https", HomeHost, NoPort, <<"a">>, "", "")
HomeAWww == Url("https", WwwHomeHost, NoPort, <<"a">>, "", "top")
HomeB == Url("https", HomeHost, NoPort, <<"b">>, "", "")
HomeLogin == Url("https", HomeHost, NoPort, <<"login">>, "", "")
HomeAsset == Url("https", HomeHost, NoPort, <<"logo">>, ".png", "")
ForeignLogin == Url("https", ForeignHost, NoPort, <<"login">>, "", "")
ForeignX == Url("https", ForeignHost, NoPort, <<"x">>, "", "")
InfraUrl == Url("https", InfraHost, NoPort, <<>>, "", "")
MailTo == Url("mailto", <<>>, NoPort, <<"a@h.com">>, "", "")
BadPort == Url("https", HomeHost, 99999, <<"c">>, "", "")
AboutBlank == Url("about", <<>>, NoPort, <<"blank">>, "", "")

\* inputs.start_url as the caller may give it
StartCandidates ==
    { Url("HTTPS", UpperHomeHost, NoPort, <<>>, "", "top"),
      Url("http", HomeHost, 99999, <<>>, "", "") }

\* (same_origin_only, allow_external) as the caller may give them
ExternalFlags ==
    { [same_origin_only |-> TRUE, allow_external |-> FALSE],
      [same_origin_only |-> FALSE, allow_external |-> FALSE] }

\* page.url once perform_login has returned
PostLoginUrls == {HomeRootWww, AboutBlank}

\* what page.eval_on_selector_all returns for the anchors of a page
AnchorLists ==
    { <<>>,
      AnchorsFail,
      <<HomeA>>,
      <<HomeAWww, HomeA, HomeLogin, HomeB>>,
      <<HomeB, ForeignX, InfraUrl, HomeA>>,
      <<MailTo, HomeAsset, HomeRoot, HomeB>>,
      <<HomeA, BadPort>> }

SameUrl == [same |-> TRUE]

\* a navigation that completes: where the page lands (SameUrl: on the target
\* itself), the response, whether the load needed safe_goto's second goto,
\* and whether the two halves of the capture succeed
PageOutcomes ==
    { [final |-> SameUrl, status |-> 200, fallback |-> FALSE,
       html_ok |-> TRUE, shot_ok |-> TRUE],
      [final |-> ForeignLogin, status |-> 200, fallback |-> TRUE,
       html_ok |-> TRUE, shot_ok |-> TRUE],
      [final |-> HomeLogin, status |-> NoStatus, fallback |-> FALSE,
       html_ok |-> FALSE, shot_ok |-> TRUE],
      [final |-> ForeignX, status |-> 404, fallback |-> FALSE,
       html_ok |-> TRUE, shot_ok |-> FALSE],
      [final |-> SameUrl, status |-> 200, fallback |-> FALSE,
       html_ok |-> FALSE, shot_ok |-> FALSE] }

\* a navigation that fails: what the successive page.goto calls of safe_goto
\* raise (a timeout of the first is answered by a second goto)
NavFailures ==
    { <<"timeout", "timeout">>, <<"error">>, <<"timeout", "unexpected">> }

\* exceptions raised inside the try block before the crawl loop.  The
\* perform_login of login_flow.py takes no run_paths keyword, so the call at
\* line 342 as written raises TypeError; LoginFailures and LoginSuccess are
\* the results of a perform_login that accepts the call, from its returns.
SetupErrors ==
    {"launch_failed", "new_context_failed", "entry_goto_failed", "TypeError"}

\* LoginResult of a failed perform_login
LoginFailures ==
    { [success |-> FALSE, status |-> "no_form_found",
       notes |-> <<"Could not locate a login form">>],
      [success |-> FALSE, status |-> "login_failed",
       notes |-> <<"Login attempts did not transition">>] }

\* LoginResult of a successful perform_login
LoginSuccess == [success |-> TRUE, status |-> "complete", notes |-> <<>>]

(***************************************************************************)
(* run_mapping.  The variables are its locals; crawl_requests is the       *)
(* browser's side of the crawl, the page.goto calls safe_goto has issued;  *)
(* result is the returned MappingResult and mapping_json the file written. *)
(***************************************************************************)
VARIABLES pc, inputs, start_url, home_domain, logged_in, allow_external,
          same_site_queue, external_queue, seen, blocked_auth_domains,
          login_redirect_counts, page_counter, page_records, page_limit_hit,
          notes, login_result, result, mapping_json, crawl_requests, cur,
          session, call

vars == <<pc, inputs, start_url, home_domain, logged_in, allow_external,
          same_site_queue, external_queue, seen, blocked_auth_domains,
          login_redirect_counts, page_counter, page_records, page_limit_hit,
          notes, login_result, result, mapping_json, crawl_requests, cur,
          session, call>>

NoResult == [absent |-> TRUE]
NoIteration == [outcome |-> "none"]
NoCall == [fn |-> "none"]

MappingInputs ==
    { [start_url |-> s, max_pages |-> mp, max_depth |-> md,
       same_origin_only |-> f.same_origin_only,
       allow_external |-> f.allow_external] :
        s \in StartCandidates, mp \in 0..MaxPagesBound,
        md \in 0..MaxDepthBound, f \in ExternalFlags }

\* run_mapping is entered: its locals as lines 310-317, 319-320 set them
Init ==
    /\ pc = "start"
    /\ inputs \in MappingInputs
    /\ start_url = inputs.start_url
    /\ home_domain = <<>>
    /\ logged_in = FALSE
    /\ allow_external = FALSE
    /\ same_site_queue = <<>>
    /\ external_queue = <<>>
    /\ seen = {}
    /\ blocked_auth_domains = {}
    /\ login_redirect_counts = <<>>
    /\ page_counter = 1
    /\ page_records = <<>>
    /\ page_limit_hit = FALSE
    /\ notes = <<>>
    /\ login_result = NoResult
    /\ result = NoResult
    /\ mapping_json = NoResult
    /\ crawl_requests = <<>>
    /\ cur = NoIteration
    /\ session = {}
    /\ call = NoCall

(***************************************************************************)
(* BrowserSession (browser.py).  session is the set of Playwright          *)
(* resources the session object holds that are still alive: the driver     *)
(* process ("playwright"), the browser process and the browser context.    *)
(***************************************************************************)
\* __enter__ acquires the driver, the browser and the context in this
\* order; a step that raises leaves __enter__ with what the steps before
\* it acquired ("" when no step raises)
__enter__(raises) ==
    CASE raises = "launch_failed" -> {"playwright"}
      [] raises = "new_context_failed" -> {"playwright", "browser"}
      [] OTHER -> {"playwright", "browser", "context"}

\* close closes the context, closes the browser and stops the driver
close(held) == held \ {"context", "browser", "playwright"}

\* the with statement of line 336: __exit__, hence close, runs only when
\* __enter__ has returned
SessionAfter(e) ==
    IF e \in {"launch_failed", "new_context_failed"}
    THEN __enter__(e)
    ELSE close(__enter__(""))

MappingResult(su, pages, status, nts) ==
    [start_url |-> su, pages |-> pages, status |-> status, notes |-> nts]

\* lines 567-585: derive the status, build the result (notes stays the list
\* that " | ".join flattens)
BuildResult(su, pages, limit_hit, nts) ==
    IF pages = <<>>
    THEN MappingResult(su, pages, "error",
             IF nts = <<>>
             THEN <<"No pages were archived during mapping.">> ELSE nts)
    ELSE IF limit_hit
    THEN MappingResult(su, pages, "partial",
                       Append(nts, "Reached page crawl limit."))
    ELSE MappingResult(su, pages, "complete", nts)

\* the run ends through lines 567-585
Finish(su, pages, limit_hit, nts) ==
    /\ pc' = "done"
    /\ result' = BuildResult(su, pages, limit_hit, nts)
    /\ mapping_json' = BuildResult(su, pages, limit_hit, nts)
    /\ notes' = BuildResult(su, pages, limit_hit, nts).notes

\* lines 318-321, before the try block: a ValueError of _normalize_url
\* leaves run_mapping at once
NormalizeStart ==
    /\ pc = "start"
    /\ IF _normalize_url(inputs.start_url) = RaisedValueError
       THEN /\ pc' = "raised"
            /\ UNCHANGED <<start_url, allow_external>>
       ELSE /\ pc' = "session"
            /\ start_url' = NormalizeOr(inputs.start_url)
            /\ allow_external' =
                   (inputs.allow_external \/ ~inputs.same_origin_only)
    /\ UNCHANGED <<session, call>>
    /\ UNCHANGED <<inputs, home_domain, logged_in, same_site_queue,
                   external_queue, seen, blocked_auth_domains,
                   login_redirect_counts, page_counter, page_records,
                   page_limit_hit, notes, login_result, result,
                   mapping_json, crawl_requests, cur>>

\* lines 335-347 raise (session setup, entry navigation, perform_login):
\* caught at line 563
SetupRaises ==
    /\ pc = "session"
    /\ \E e \in SetupErrors :
          /\ Finish(start_url, page_records, page_limit_hit, Append(notes, e))
          /\ session' = SessionAfter(e)
    /\ UNCHANGED call
    /\ UNCHANGED <<inputs, start_url, home_domain, logged_in, allow_external,
                   same_site_queue, external_queue, seen,
                   blocked_auth_domains, login_redirect_counts, page_counter,
                   page_records, page_limit_hit, login_result, crawl_requests,
                   cur>>

\* variant of LoginFailureResult: the status is error whatever the login
\* result says
LoginFailureResultAsError(su, r, nts) ==
    MappingResult(su, <<>>, "error", nts \o r.notes)

\* lines 351-359: the MappingResult of a run whose login failed
LoginFailureResult(su, r, nts) ==
    MappingResult(su, <<>>, r.status, nts \o r.notes)

\* lines 348-363: perform_login reports failure
LoginFails ==
    /\ pc = "session"
    /\ \E r \in LoginFailures, page_url \in PostLoginUrls :
          /\ login_result' = r
          /\ start_url' = NormalizeOr(page_url)
          /\ home_domain' = _registrable_domain(NormalizeOr(page_url))
          /\ notes' = notes \o r.notes
          /\ result' = LoginFailureResult(NormalizeOr(page_url), r, notes)
          /\ mapping_json' =
                 LoginFailureResult(NormalizeOr(page_url), r, notes)
    /\ pc' = "done"
    /\ session' = close(__enter__(""))
    /\ UNCHANGED call
    /\ UNCHANGED <<inputs, logged_in, allow_external, same_site_queue,
                   external_queue, seen, blocked_auth_domains,
                   login_redirect_counts, page_counter, page_records,
                   page_limit_hit, crawl_requests, cur>>

\* variant of LoginSucceeds: the entry URL is queued, not the post-login one
LoginSucceedsQueuesEntryUrl ==
    /\ pc = "session"
    /\ \E page_url \in PostLoginUrls :
          /\ start_url' = NormalizeOr(page_url)
          /\ home_domain' = _registrable_domain(NormalizeOr(page_url))
          /\ same_site_queue' = Append(same_site_queue, <<start_url, 0>>)
    /\ login_result' = LoginSuccess
    /\ logged_in' = TRUE
    /\ pc' = "loop"
    /\ session' = __enter__("")
    /\ UNCHANGED call
    /\ UNCHANGED <<inputs, allow_external, external_queue, seen,
                   blocked_auth_domains, login_redirect_counts, page_counter,
                   page_records, page_limit_hit, notes, result, mapping_json,
                   crawl_requests, cur>>

\* lines 348-349, 364-367: perform_login succeeds, the crawl loop is entered
LoginSucceeds ==
    /\ pc = "session"
    /\ \E page_url \in PostLoginUrls :
          /\ start_url' = NormalizeOr(page_url)
          /\ home_domain' = _registrable_domain(NormalizeOr(page_url))
          /\ same_site_queue' =
                 Append(same_site_queue, <<NormalizeOr(page_url), 0>>)
    /\ login_result' = LoginSuccess
    /\ logged_in' = TRUE
    /\ pc' = "loop"
    /\ session' = __enter__("")
    /\ UNCHANGED call
    /\ UNCHANGED <<inputs, allow_external, external_queue, seen,
                   blocked_auth_domains, login_redirect_counts, page_counter,
                   page_records, page_limit_hit, notes, result, mapping_json,
                   crawl_requests, cur>>

(***************************************************************************)
(* The crawl loop, lines 368-560.  One action is one iteration.            *)
(***************************************************************************)
\* variant of LoopGuard: the cap compared with <= instead of <
LoopGuardInclusive ==
    /\ (same_site_queue # <<>> \/ external_queue # <<>>)
    /\ Len(page_records) <= inputs.max_pages

LoopGuard ==
    /\ (same_site_queue # <<>> \/ external_queue # <<>>)
    /\ Len(page_records) < inputs.max_pages

\* variant of Dequeued: the target is read and left on its queue
DequeuedPeek ==
    IF same_site_queue # <<>>
    THEN [target_url |-> Head(same_site_queue)[1],
          depth |-> Head(same_site_queue)[2],
          queue_label |-> "same-site",
          same_site_queue |-> same_site_queue,
          external_queue |-> external_queue]
    ELSE [target_url |-> Head(external_queue)[1],
          depth |-> Head(external_queue)[2],
          queue_label |-> "external",
          same_site_queue |-> same_site_queue,
          external_queue |-> external_queue]

\* variant of Dequeued: the newest entry of a queue is taken (pop instead
\* of popleft)
DequeuedLifo ==
    IF same_site_queue # <<>>
    THEN [target_url |-> same_site_queue[Len(same_site_queue)][1],
          depth |-> same_site_queue[Len(same_site_queue)][2],
          queue_label |-> "same-site",
          same_site_queue |->
              SubSeq(same_site_queue, 1, Len(same_site_queue) - 1),
          external_queue |-> external_queue]
    ELSE [target_url |-> external_queue[Len(external_queue)][1],
          depth |-> external_queue[Len(external_queue)][2],
          queue_label |-> "external",
          same_site_queue |-> same_site_queue,
          external_queue |->
              SubSeq(external_queue, 1, Len(external_queue) - 1)]

\* lines 371-376: the target the iteration takes, and the queues without it
Dequeued ==
    IF same_site_queue # <<>>
    THEN [target_url |-> Head(same_site_queue)[1],
          depth |-> Head(same_site_queue)[2],
          queue_label |-> "same-site",
          same_site_queue |-> Tail(same_site_queue),
          external_queue |-> external_queue]
    ELSE [target_url |-> Head(external_queue)[1],
          depth |-> Head(external_queue)[2],
          queue_label |-> "external",
          same_site_queue |-> same_site_queue,
          external_queue |-> Tail(external_queue)]

\* variant of SkipReason: the visited set is not consulted
SkipReasonNoVisited(target_url, seen_now, blocked_now, home) ==
    LET normalized_target == _normalize_url(target_url)
    IN  IF normalized_target = NoneUrl THEN "invalid"
        ELSE IF _is_infra_domain(_registrable_domain(normalized_target), home)
             THEN "infra"
        ELSE IF _registrable_domain(normalized_target) \in blocked_now
             THEN "blocked"
        ELSE ""

\* lines 377-399: why the target is skipped before navigation ("" when it
\* is not skipped)
SkipReason(target_url, seen_now, blocked_now, home) ==
    LET normalized_target == _normalize_url(target_url)
    IN  IF normalized_target = NoneUrl THEN "invalid"
        ELSE IF normalized_target \in seen_now THEN "visited"
        ELSE IF _is_infra_domain(_registrable_domain(normalized_target), home)
             THEN "infra"
        ELSE IF _registrable_domain(normalized_target) \in blocked_now
             THEN "blocked"
        ELSE ""

\* lines 371-399: the target is dequeued and skipped
SkipTarget ==
    /\ pc = "loop" /\ LoopGuard
    /\ \E d \in {Dequeued},
          reason \in {SkipReason(Dequeued.target_url, seen,
                                 blocked_auth_domains, home_domain)} :
           /\ _normalize_url(d.target_url) # RaisedValueError
           /\ reason # ""
           /\ same_site_queue' = d.same_site_queue
           /\ external_queue' = d.external_queue
           /\ seen' = IF reason \in {"infra", "blocked"}
                      THEN seen \cup {_normalize_url(d.target_url)}
                      ELSE seen
           /\ cur' = [outcome |-> "skipped", target_url |-> d.target_url,
                      depth |-> d.depth, queue_label |-> d.queue_label,
                      reason |-> reason]
    /\ UNCHANGED <<session, call>>
    /\ UNCHANGED <<pc, inputs, start_url, home_domain, logged_in,
                   allow_external, blocked_auth_domains,
                   login_redirect_counts, page_counter, page_records,
                   page_limit_hit, notes, login_result, result, mapping_json,
                   crawl_requests>>

\* safe_goto: the page.goto calls it issues when the calls raise as in
\* raises (<<>>: the first call returns)
safe_goto(url, raises) ==
    IF raises # <<>> /\ raises[1] = "timeout"
    THEN << [url |-> url, wait_until |-> "load"],
            [url |-> url, wait_until |-> "domcontentloaded"] >>
    ELSE << [url |-> url, wait_until |-> "load"] >>

\* variant of FailedRecord: the error is not recorded
FailedRecordNoError(normalized_target, target_url, depth, exc) ==
    PageRecord(normalized_target, target_url, NoStatus, NoPath, NoPath,
               depth, NoError)

\* lines 422-432, 441-451, 460-470: the PageRecord of a failed navigation
FailedRecord(normalized_target, target_url, depth, exc) ==
    PageRecord(normalized_target, target_url, NoStatus, NoPath, NoPath,
               depth, exc)

\* lines 400-471: safe_goto raises, a failed PageRecord is appended
NavigationFails ==
    /\ pc = "loop" /\ LoopGuard
    /\ \E d \in {Dequeued},
          normalized_target \in {_normalize_url(Dequeued.target_url)} :
           /\ normalized_target # RaisedValueError
           /\ SkipReason(d.target_url, seen, blocked_auth_domains,
                         home_domain) = ""
           /\ \E raises \in NavFailures :
                 /\ crawl_requests' =
                        crawl_requests \o safe_goto(normalized_target, raises)
                 /\ page_records' =
                        Append(page_records,
                               FailedRecord(normalized_target, d.target_url,
                                            d.depth, raises[Len(raises)]))
           /\ same_site_queue' = d.same_site_queue
           /\ external_queue' = d.external_queue
           /\ seen' = seen \cup {normalized_target}
           /\ cur' = [outcome |-> "failed", target_url |-> d.target_url,
                      depth |-> d.depth, queue_label |-> d.queue_label]
    /\ UNCHANGED <<session, call>>
    /\ UNCHANGED <<pc, inputs, start_url, home_domain, logged_in,
                   allow_external, blocked_auth_domains,
                   login_redirect_counts, page_counter, page_limit_hit,
                   notes, login_result, result, mapping_json>>

\* login_redirect_counts[domain], a defaultdict(int)
RedirectCount(counts, domain) ==
    IF domain \in DOMAIN counts THEN counts[domain] ELSE 0

\* variant of AuthWallCheck: a landing on an already blocked domain that is
\* not login-like does not suppress link expansion
AuthWallCheckNoElif(final_url, counts, blocked, home) ==
    LET final_domain == _registrable_domain(final_url)
        redirect_count == RedirectCount(counts, final_domain) + 1
        counted == [x \in DOMAIN counts \cup {final_domain} |->
                       IF x = final_domain THEN redirect_count
                       ELSE counts[x]]
    IN  IF _looks_like_login(final_url)
        THEN IF /\ final_domain # <<>>
                /\ final_domain # home
                /\ redirect_count >= AUTH_WALL_REDIRECT_THRESHOLD
             THEN [counts |-> counted,
                   blocked |-> blocked \cup {final_domain},
                   skip_link_expansion |-> TRUE]
             ELSE [counts |-> counted, blocked |-> blocked,
                   skip_link_expansion |-> FALSE]
        ELSE [counts |-> counts, blocked |-> blocked,
              skip_link_expansion |-> FALSE]

\* variant of AuthWallCheck: the blocked set is rebuilt in every iteration
AuthWallCheckIterationScoped(final_url, counts, blocked, home) ==
    LET final_domain == _registrable_domain(final_url)
        redirect_count == RedirectCount(counts, final_domain) + 1
        counted == [x \in DOMAIN counts \cup {final_domain} |->
                       IF x = final_domain THEN redirect_count
                       ELSE counts[x]]
    IN  IF _looks_like_login(final_url)
        THEN IF /\ final_domain # <<>>
                /\ final_domain # home
                /\ redirect_count >= AUTH_WALL_REDIRECT_THRESHOLD
             THEN [counts |-> counted,
                   blocked |-> {final_domain},
                   skip_link_expansion |-> TRUE]
             ELSE [counts |-> counted, blocked |-> {},
                   skip_link_expansion |-> FALSE]
        ELSE [counts |-> counts, blocked |-> {},
              skip_link_expansion |-> FALSE]

\* variant of AuthWallCheck: the home domain is blocked like any other
AuthWallCheckBlocksHome(final_url, counts, blocked, home) ==
    LET final_domain == _registrable_domain(final_url)
        redirect_count == RedirectCount(counts, final_domain) + 1
        counted == [x \in DOMAIN counts \cup {final_domain} |->
                       IF x = final_domain THEN redirect_count
                       ELSE counts[x]]
    IN  IF _looks_like_login(final_url)
        THEN IF /\ final_domain # <<>>
                /\ redirect_count >= AUTH_WALL_REDIRECT_THRESHOLD
             THEN [counts |-> counted,
                   blocked |-> blocked \cup {final_domain},
                   skip_link_expansion |-> TRUE]
             ELSE [counts |-> counted, blocked |-> blocked,
                   skip_link_expansion |-> FALSE]
        ELSE [counts |-> counts, blocked |-> blocked,
              skip_link_expansion |-> final_domain \in blocked]

\* variant of AuthWallCheck: a foreign domain is blocked at its first
\* login-like landing
AuthWallCheckFirstLanding(final_url, counts, blocked, home) ==
    LET final_domain == _registrable_domain(final_url)
        redirect_count == RedirectCount(counts, final_domain) + 1
        counted == [x \in DOMAIN counts \cup {final_domain} |->
                       IF x = final_domain THEN redirect_count
                       ELSE counts[x]]
    IN  IF _looks_like_login(final_url)
        THEN IF /\ final_domain # <<>>
                /\ final_domain # home
             THEN [counts |-> counted,
                   blocked |-> blocked \cup {final_domain},
                   skip_link_expansion |-> TRUE]
             ELSE [counts |-> counted, blocked |-> blocked,
                   skip_link_expansion |-> FALSE]
        ELSE [counts |-> counts, blocked |-> blocked,
              skip_link_expansion |-> final_domain \in blocked]

\* variant of AuthWallCheck: the landing that blocks a domain does not
\* suppress link expansion
AuthWallCheckExpandsBlocking(final_url, counts, blocked, home) ==
    LET final_domain == _registrable_domain(final_url)
        redirect_count == RedirectCount(counts, final_domain) + 1
        counted == [x \in DOMAIN counts \cup {final_domain} |->
                       IF x = final_domain THEN redirect_count
                       ELSE counts[x]]
    IN  IF _looks_like_login(final_url)
        THEN IF /\ final_domain # <<>>
                /\ final_domain # home
                /\ redirect_count >= AUTH_WALL_REDIRECT_THRESHOLD
             THEN [counts |-> counted,
                   blocked |-> blocked \cup {final_domain},
                   skip_link_expansion |-> FALSE]
             ELSE [counts |-> counted, blocked |-> blocked,
                   skip_link_expansion |-> FALSE]
        ELSE [counts |-> counts, blocked |-> blocked,
              skip_link_expansion |-> final_domain \in blocked]

\* lines 473-508, the auth-wall check on the landed URL: the new counters,
\* the new blocked set and skip_link_expansion
AuthWallCheck(final_url, counts, blocked, home) ==
    LET final_domain == _registrable_domain(final_url)
        redirect_count == RedirectCount(counts, final_domain) + 1
        counted == [x \in DOMAIN counts \cup {final_domain} |->
                       IF x = final_domain THEN redirect_count
                       ELSE counts[x]]
    IN  IF _looks_like_login(final_url)
        THEN IF /\ final_domain # <<>>
                /\ final_domain # home
                /\ redirect_count >= AUTH_WALL_REDIRECT_THRESHOLD
             THEN [counts |-> counted,
                   blocked |-> blocked \cup {final_domain},
                   skip_link_expansion |-> TRUE]
             ELSE [counts |-> counted, blocked |-> blocked,
                   skip_link_expansion |-> FALSE]
        ELSE [counts |-> counts, blocked |-> blocked,
              skip_link_expansion |-> final_domain \in blocked]

\* variant of QueueEntry: the link keeps the depth of the page it is on
QueueEntrySameDepth(link, depth) == <<link, depth>>

\* lines 558 and 560: the queue entry of a link found at depth
QueueEntry(link, depth) == <<link, depth + 1>>

\* variant of EnqueueLinks: a link is put at the front of its queue
\* (appendleft instead of append)
RECURSIVE EnqueueLinksAtFront(_, _, _, _, _, _, _)
EnqueueLinksAtFront(links, qs, seen_now, blocked, home, depth, max_depth) ==
    IF links = <<>> THEN qs
    ELSE LET link == Head(links)
             rest == Tail(links)
         IN  IF \/ link \in seen_now
                \/ _registrable_domain(link) \in blocked
                \/ depth + 1 > max_depth
             THEN EnqueueLinksAtFront(rest, qs, seen_now, blocked, home,
                                      depth, max_depth)
             ELSE IF _is_same_site(link, home)
             THEN EnqueueLinksAtFront(rest,
                      [qs EXCEPT !.same_site_queue = <<<<link, depth + 1>>>> \o @],
                      seen_now, blocked, home, depth, max_depth)
             ELSE EnqueueLinksAtFront(rest,
                      [qs EXCEPT !.external_queue = <<<<link, depth + 1>>>> \o @],
                      seen_now, blocked, home, depth, max_depth)

\* lines 544-560: the links that are enqueued, onto the queues qs
RECURSIVE EnqueueLinks(_, _, _, _, _, _, _)
EnqueueLinks(links, qs, seen_now, blocked, home, depth, max_depth) ==
    IF links = <<>> THEN qs
    ELSE LET link == Head(links)
             rest == Tail(links)
         IN  IF \/ link \in seen_now
                \/ _registrable_domain(link) \in blocked
                \/ depth + 1 > max_depth
             THEN EnqueueLinks(rest, qs, seen_now, blocked, home, depth,
                               max_depth)
             ELSE IF _is_same_site(link, home)
             THEN EnqueueLinks(rest,
                      [qs EXCEPT !.same_site_queue = Append(@, QueueEntry(link, depth))],
                      seen_now, blocked, home, depth, max_depth)
             ELSE EnqueueLinks(rest,
                      [qs EXCEPT !.external_queue = Append(@, QueueEntry(link, depth))],
                      seen_now, blocked, home, depth, max_depth)

\* page.url after a navigation with outcome o to normalized_target
PageUrl(o, normalized_target) ==
    IF o.final = SameUrl THEN normalized_target ELSE o.final

\* lines 400-529 of an iteration whose navigation to normalized_target
\* completes with outcome o and lands on final_url: everything up to the
\* appended record
LandedOn(d, o, normalized_target, final_url) ==
    [normalized_target |-> normalized_target,
     final_url |-> final_url,
     check |-> AuthWallCheck(final_url, login_redirect_counts,
                             blocked_auth_domains, home_domain),
     requests |-> safe_goto(normalized_target,
                            IF o.fallback THEN <<"timeout">> ELSE <<>>),
     record |-> archive_page(page_counter, d.target_url, final_url, d.depth,
                             o.status, o.html_ok, o.shot_ok)]

Landed(d, o) ==
    LandedOn(d, o, _normalize_url(d.target_url),
             NormalizeOr(PageUrl(o, _normalize_url(d.target_url))))

\* lines 377-400: the dequeued target reaches the navigation attempt
Navigable(d) ==
    /\ _normalize_url(d.target_url) # RaisedValueError
    /\ SkipReason(d.target_url, seen, blocked_auth_domains, home_domain) = ""

\* variant of ExtractCall: a foreign domain is on the allowlist passed
ExtractCallAllowlisted(anchors, blocked) ==
    extract_links(anchors, home_domain, allow_external, logged_in,
                  {ForeignHost}, INFRA_DOMAIN_BLOCKLIST, blocked)

\* lines 533-543: the call of extract_links run_mapping makes
ExtractCall(anchors, blocked) ==
    extract_links(anchors, home_domain, allow_external, logged_in,
                  HIGH_VALUE_EXTERNAL_DOMAINS, INFRA_DOMAIN_BLOCKLIST, blocked)

\* line 530: the page's links are harvested
Expands(d, l) ==
    ~(d.depth >= inputs.max_depth \/ l.check.skip_link_expansion)

\* variant of Archived: the counter is not incremented
ArchivedSameCounter(d, l) ==
    /\ seen' = seen \cup {l.normalized_target}
    /\ crawl_requests' = crawl_requests \o l.requests
    /\ login_redirect_counts' = l.check.counts
    /\ blocked_auth_domains' = l.check.blocked
    /\ page_counter' = page_counter
    /\ page_records' = Append(page_records, l.record)

\* lines 400-529: the state after the record of the landed page is appended
Archived(d, l) ==
    /\ seen' = seen \cup {l.normalized_target}
    /\ crawl_requests' = crawl_requests \o l.requests
    /\ login_redirect_counts' = l.check.counts
    /\ blocked_auth_domains' = l.check.blocked
    /\ page_counter' = page_counter + 1
    /\ page_records' = Append(page_records, l.record)

\* the locals of an iteration as cur keeps them
Locals(d, l, outcome, anchors, links) ==
    [outcome |-> outcome, target_url |-> d.target_url, depth |-> d.depth,
     queue_label |-> d.queue_label,
     skip_link_expansion |-> l.check.skip_link_expansion,
     anchors |-> anchors, links |-> links]

\* lines 400-531: the page is archived and its links are not harvested
ArchiveOnly ==
    /\ pc = "loop" /\ LoopGuard
    /\ \E d \in {Dequeued} :
          /\ Navigable(d)
          /\ \E o \in PageOutcomes :
                \E l \in {Landed(d, o)} :
                   /\ ~Expands(d, l)
                   /\ Archived(d, l)
                   /\ same_site_queue' = d.same_site_queue
                   /\ external_queue' = d.external_queue
                   /\ cur' = Locals(d, l, "archived", <<>>, <<>>)
    /\ UNCHANGED <<session, call>>
    /\ UNCHANGED <<pc, inputs, start_url, home_domain, logged_in,
                   allow_external, page_limit_hit, notes, login_result,
                   result, mapping_json>>

\* lines 400-560: the page is archived and its links are harvested and
\* enqueued
ArchiveAndExpand ==
    /\ pc = "loop" /\ LoopGuard
    /\ \E d \in {Dequeued} :
          /\ Navigable(d)
          /\ \E o \in PageOutcomes, anchors \in AnchorLists :
                \E l \in {Landed(d, o)} :
                   /\ Expands(d, l)
                   /\ \E x \in {ExtractCall(anchors, l.check.blocked)} :
                         /\ ~x.raised
                         /\ \E qs \in {EnqueueLinks(x.links,
                                          [same_site_queue |-> d.same_site_queue,
                                           external_queue |-> d.external_queue],
                                          seen \cup {l.normalized_target},
                                          l.check.blocked, home_domain,
                                          d.depth, inputs.max_depth)} :
                               /\ same_site_queue' = qs.same_site_queue
                               /\ external_queue' = qs.external_queue
                         /\ cur' = Locals(d, l, "expanded", anchors, x.links)
                   /\ Archived(d, l)
    /\ UNCHANGED <<session, call>>
    /\ UNCHANGED <<pc, inputs, start_url, home_domain, logged_in,
                   allow_external, page_limit_hit, notes, login_result,
                   result, mapping_json>>

\* lines 400-543 and 563-585: the page is archived, then extract_links
\* raises the ValueError of _normalize_url, which ends the loop at line 563
ExpansionRaises ==
    /\ pc = "loop" /\ LoopGuard
    /\ \E d \in {Dequeued} :
          /\ Navigable(d)
          /\ \E o \in PageOutcomes, anchors \in AnchorLists :
                \E l \in {Landed(d, o)} :
                   /\ Expands(d, l)
                   /\ ExtractCall(anchors, l.check.blocked).raised
                   /\ Archived(d, l)
                   /\ same_site_queue' = d.same_site_queue
                   /\ external_queue' = d.external_queue
                   /\ cur' = Locals(d, l, "raised", anchors, <<>>)
                   /\ Finish(start_url, Append(page_records, l.record),
                             page_limit_hit, Append(notes, "ValueError"))
    /\ session' = close(session)
    /\ UNCHANGED call
    /\ UNCHANGED <<inputs, start_url, home_domain, logged_in, allow_external,
                   page_limit_hit, login_result>>

\* lines 368-370, 562, 567-585: the loop condition fails, the run ends
LoopExit ==
    /\ pc = "loop" /\ ~LoopGuard
    /\ page_limit_hit' = (Len(page_records) >= inputs.max_pages)
    /\ Finish(start_url, page_records,
              Len(page_records) >= inputs.max_pages, notes)
    /\ session' = close(session)
    /\ UNCHANGED call
    /\ UNCHANGED <<inputs, start_url, home_domain, logged_in, allow_external,
                   same_site_queue, external_queue, seen,
                   blocked_auth_domains, login_redirect_counts, page_counter,
                   page_records, login_result, crawl_requests, cur>>

Next ==
    \/ NormalizeStart
    \/ SetupRaises
    \/ LoginFails
    \/ LoginSucceeds
    \/ SkipTarget
    \/ NavigationFails
    \/ ArchiveOnly
    \/ ArchiveAndExpand
    \/ ExpansionRaises
    \/ LoopExit

Spec == Init /\ [][Next]_vars

\* run_mapping has returned (pc = "done") or raised (pc = "raised")
Ended == pc \in {"done", "raised"}

\* the run is cut short where it stands
Aborts ==
    /\ pc' = "raised"
    /\ UNCHANGED <<inputs, start_url, home_domain, logged_in, allow_external,
                   same_site_queue, external_queue, seen,
                   blocked_auth_domains, login_redirect_counts, page_counter,
                   page_records, page_limit_hit, notes, login_result, result,
                   mapping_json, crawl_requests, cur, session, call>>

\* a step of a run that has not ended.  Spec confines the steps to those of
\* Next, and Next can be taken in every state that is not Ended, so within
\* Spec the steps of Running are the steps of Next and Running is enabled
\* where Next is; the disjunct Aborts only names a successor, so that
\* enabledness is decided without evaluating Next.
Running == ~Ended /\ (Aborts \/ TRUE)

\* run_mapping runs in one thread and every call it makes returns or raises
\* (page.goto and the captures have timeouts): while the run has not ended
\* its next step is taken
LiveSpec == Spec /\ WF_vars(Running)

(***************************************************************************)
(* The URL helpers called on their own.  call is the call in progress:     *)
(* the function, its arguments and what it returned.  No run_mapping is    *)
(* in progress, its variables keep the values of NotRunning.               *)
(***************************************************************************)
run_vars ==
    <<pc, inputs, start_url, home_domain, logged_in, allow_external,
      same_site_queue, external_queue, seen, blocked_auth_domains,
      login_redirect_counts, page_counter, page_records, page_limit_hit,
      notes, login_result, result, mapping_json, crawl_requests, cur,
      session>>

NotRunning ==
    /\ pc = "idle"
    /\ inputs = NoResult
    /\ start_url = EmptyCandidate
    /\ home_domain = <<>>
    /\ logged_in = FALSE
    /\ allow_external = FALSE
    /\ same_site_queue = <<>>
    /\ external_queue = <<>>
    /\ seen = {}
    /\ blocked_auth_domains = {}
    /\ login_redirect_counts = <<>>
    /\ page_counter = 1
    /\ page_records = <<>>
    /\ page_limit_hit = FALSE
    /\ notes = <<>>
    /\ login_result = NoResult
    /\ result = NoResult
    /\ mapping_json = NoResult
    /\ crawl_requests = <<>>
    /\ cur = NoIteration
    /\ session = {}

WalletHost == <<"w", "a", "l", "l", "e", "t", ".", "c", "o", "m">>
LoopbackHost == <<"[", ":", ":", "1", "]">>
LinkLocalHost == <<"[", "f", ":", ":", "1", "]">>

\* the candidate strings the helpers are called with
CandidateSchemes == {"", "http", "https", "HTTPS", "mailto", "tel", "ftp"}
CandidateHosts ==
    {<<>>, HomeHost, WwwHomeHost, UpperHomeHost, WalletHost, LoopbackHost,
     LinkLocalHost}
CandidatePorts == {NoPort, 0, 80, 443, 8080, 99999}
CandidatePaths == {<<>>, <<"a">>}
CandidateFragments == {"", "top"}

Candidates ==
    { Url(sc, h, p, pa, "", f) :
        sc \in CandidateSchemes, h \in CandidateHosts, p \in CandidatePorts,
        pa \in CandidatePaths, f \in CandidateFragments }

UrlInit == NotRunning /\ call = NoCall

\* _normalize_url(candidate) is called
NormalizeUrlCall ==
    /\ call = NoCall
    /\ \E candidate \in Candidates :
          call' = [fn |-> "_normalize_url", candidate |-> candidate,
                   returned |-> _normalize_url(candidate)]
    /\ UNCHANGED run_vars

\* _registrable_domain(url) is called; host is its local of line 128
RegistrableDomainCall ==
    /\ call = NoCall
    /\ \E url \in Candidates :
          call' = [fn |-> "_registrable_domain", candidate |-> url,
                   host |-> _extract_host(url),
                   returned |-> _registrable_domain(url)]
    /\ UNCHANGED run_vars

\* the caller has taken the returned value
CallReturns ==
    /\ call # NoCall
    /\ call' = NoCall
    /\ UNCHANGED run_vars

UrlNext ==
    \/ NormalizeUrlCall
    \/ RegistrableDomainCall
    \/ CallReturns

UrlSpec == UrlInit /\ [][UrlNext]_vars

(***************************************************************************)
(* extract_links called on its own, with the arguments a caller may pass.  *)
(***************************************************************************)
\* the hrefs a page may offer
LinkUniverse == {HomeA, HomeAWww, HomeLogin, ForeignX, InfraUrl}

RECURSIVE SeqsUpTo(_, _)
SeqsUpTo(S, n) ==
    IF n = 0 THEN {<<>>}
    ELSE SeqsUpTo(S, n - 1)
         \cup {Append(q, x) : q \in {r \in SeqsUpTo(S, n - 1) : Len(r) = n - 1},
                              x \in S}

\* what page.eval_on_selector_all returns: up to MaxAnchors hrefs
RawLinkLists == SeqsUpTo(LinkUniverse, MaxAnchors)

\* the keyword arguments of extract_links
LinkArguments ==
    [home_domain : {HomeHost, <<>>},
     allow_external : BOOLEAN,
     avoid_auth_links : BOOLEAN,
     external_allowlist : {{}, {ForeignHost, InfraHost}},
     infra_blocklist : {{}, INFRA_DOMAIN_BLOCKLIST, {ForeignHost}},
     blocked_domains : {{}, {ForeignHost}}]

NoQueues == [same_site_queue |-> <<>>, external_queue |-> <<>>]

LinksInit == NotRunning /\ call = NoCall

\* extract_links is called on a page; enqueued is what lines 541-560 put on
\* empty queues from the returned links, for a depth-0 page below max_depth
\* with nothing visited
ExtractLinksCall ==
    /\ call = NoCall
    /\ \E raw_links \in RawLinkLists, a \in LinkArguments :
          \E returned \in {extract_links(raw_links, a.home_domain,
                               a.allow_external, a.avoid_auth_links,
                               a.external_allowlist, a.infra_blocklist,
                               a.blocked_domains)} :
             call' = [fn |-> "extract_links", raw_links |-> raw_links,
                      args |-> a, returned |-> returned,
                      enqueued |-> EnqueueLinks(returned.links, NoQueues, {},
                                                a.blocked_domains,
                                                a.home_domain, 0, 1)]
    /\ UNCHANGED run_vars

LinksNext ==
    \/ ExtractLinksCall
    \/ CallReturns

LinksSpec == LinksInit /\ [][LinksNext]_vars

(***************************************************************************)
(* archive_page called on its own.                                         *)
(***************************************************************************)
\* the arguments of archive_page, and whether page.content() and
\* page.screenshot() succeed
ArchiveArguments ==
    [counter : 1..MaxPagesBound,
     original_url : {HomeA, HomeLogin},
     final_url : {HomeA, HomeLogin, ForeignX},
     depth : 0..MaxDepthBound,
     status_code : {200, 404, NoStatus},
     html_ok : BOOLEAN,
     shot_ok : BOOLEAN]

ArchiveInit == NotRunning /\ call = NoCall

ArchivePageCall ==
    /\ call = NoCall
    /\ \E a \in ArchiveArguments :
          call' = [fn |-> "archive_page", args |-> a,
                   returned |-> archive_page(a.counter, a.original_url,
                                             a.final_url, a.depth,
                                             a.status_code, a.html_ok,
                                             a.shot_ok)]
    /\ UNCHANGED run_vars

ArchiveNext ==
    \/ ArchivePageCall
    \/ CallReturns

ArchiveSpec == ArchiveInit /\ [][ArchiveNext]_vars

(***************************************************************************)
(* The evidence extraction engines: data_extractor.py (run offline over    *)
(* archived HTML) and parsing.py (run inline on each captured view).       *)
(*                                                                         *)
(* Representation.  A string that a pattern may match is a token, a record *)
(* that keeps what the patterns look at: its kind, the case of its prefix  *)
(* and the case of the letters of its body.  Tokens are long enough for    *)
(* the length ranges of both modules and are delimited by non-word         *)
(* characters.  A document is a sequence of elements, each carrying one    *)
(* token in one place of the markup (the body of a script, style or iframe *)
(* element, the value attribute of an input, the text of a p element, or   *)
(* text outside any tag); HTMLParser turns it into start-tag, data and     *)
(* end-tag events.  A corpus is the sequence of the tokens left in a text. *)
(* The context snippet of an entry is modelled by the occurrence it is cut *)
(* around: the corpus and the index of the element.  ETH, TRON and the     *)
(* beneficiary and bank-name labels do not occur in the documents.         *)
(***************************************************************************)
Word(s) == [kind |-> "word", text |-> s]
NoValue == [kind |-> "None"]

LegacyAddress == [kind |-> "legacy", prefix |-> "1", body |-> "mixed"]
Bech32Lower == [kind |-> "bech32", prefix |-> "bc1", body |-> "lower"]
Bech32Upper == [kind |-> "bech32", prefix |-> "BC1", body |-> "upper"]
Bech32Mixed == [kind |-> "bech32", prefix |-> "bc1", body |-> "mixed"]
IbanNumber == [kind |-> "iban", prefix |-> "DE", body |-> "upper"]

\* the value of an entry whose matched group is blank (value.strip() is "")
EmptyValue == Word("")

BLOCKED_TAGS == {"script", "style", "iframe"}
BLOCKED_ATTR_TAGS == {"script", "style", "iframe", "link", "meta"}
INFRA_ATTR_NAMES == {"src", "href", "integrity", "content"}
VISIBLE_TEXT_TAGS ==
    {"a", "b", "code", "div", "em", "h1", "h2", "h3", "h4", "h5", "h6", "i",
     "label", "li", "p", "pre", "span", "strong", "td", "th"}
INPUT_POSITIVE_CLASS_HINTS ==
    {"copy", "clipboard", "address", "wallet", "readonly", "deposit",
     "payment"}
INFRA_DOMAIN_KEYWORDS ==
    {"stripe.com", "stripe.network", "js.stripe.com", "code.jquery.com",
     "jquery.com", "googleapis.com", "gstatic.com", "bootstrapcdn.com",
     "cdn.jsdelivr.net", "cloudflare.com"}

\* an attribute value that is a URL: its host and the token in its path
UrlValue(host, token) == [kind |-> "url", host |-> host, token |-> token]

\* lines 144-151: the host of the value holds one of the keywords (the
\* hosts of the documents are a keyword or hold none); a value that is no
\* URL has no netloc
_is_infra_url(value) ==
    value.kind = "url" /\ value.host # "" /\ value.host \in INFRA_DOMAIN_KEYWORDS

\* any(char.islower() ...) and any(char.isupper() ...) over a token
HasLower(value) == value.prefix = "bc1" \/ value.body \in {"lower", "mixed"}
HasUpper(value) == value.prefix = "BC1" \/ value.body \in {"upper", "mixed"}

_is_bech32_case_valid(value) == ~(HasLower(value) /\ HasUpper(value))

\* the patterns of data_extractor.py, as predicates on a token
BTC_LEGACY_PATTERN(t) == t.kind = "legacy"
BTC_BECH32_PATTERN(t) == t.kind = "bech32"

\* the patterns _collect is called with, by name: data_extractor.py and
\* parsing.py share IBAN_PATTERN; BTC_PATTERN is that of parsing.py line 21,
\* a lower-case bc1 or a 1 or 3 followed by letters and digits of any case;
\* no token of the documents matches the other patterns
PatternMatches(pattern, t) ==
    IF pattern = "IBAN_PATTERN" THEN t.kind = "iban"
    ELSE IF pattern = "BTC_PATTERN"
    THEN t.kind = "legacy" \/ (t.kind = "bech32" /\ t.prefix = "bc1")
    ELSE FALSE

\* a text is the sequence of its tokens, each with the index of the
\* element it comes from
Located(token, corpus, at) == [token |-> token, corpus |-> corpus, at |-> at]

\* pattern.finditer(text) of lines 127-132 for one of the two BTC patterns
RECURSIVE BtcMatches(_, _)
BtcMatches(pattern, text) ==
    IF text = <<>> THEN <<>>
    ELSE (IF \/ pattern = "BTC_LEGACY_PATTERN"
                /\ BTC_LEGACY_PATTERN(Head(text).token)
             \/ /\ pattern = "BTC_BECH32_PATTERN"
                /\ BTC_BECH32_PATTERN(Head(text).token)
                /\ _is_bech32_case_valid(Head(text).token)
          THEN << <<"BTC", Head(text).token, Head(text).at>> >>
          ELSE <<>>)
         \o BtcMatches(pattern, Tail(text))

\* _iter_crypto_matches: the (type, value, start) triples, the legacy
\* matches of the text before its bech32 matches
_iter_crypto_matches(text) ==
    BtcMatches("BTC_LEGACY_PATTERN", text)
        \o BtcMatches("BTC_BECH32_PATTERN", text)

\* attrs is the list of (name, value) pairs of a start tag
HasAttr(attrs, name) == \E i \in 1..Len(attrs) : attrs[i][1] = name

AttrGet(attrs, name, default) ==
    IF HasAttr(attrs, name)
    THEN LET v == attrs[CHOOSE i \in 1..Len(attrs) : attrs[i][1] = name][2]
         IN  IF v = NoValue THEN Word("") ELSE v
    ELSE default

NoTag == "None"
NoAttr == "None"

\* variant of _is_positive_context: every attribute of a tag is positive
PositiveAnyAttribute(tag, attr, attrs) ==
    IF attr # NoAttr THEN TRUE
    ELSE IF tag = NoTag THEN TRUE
    ELSE tag \in VISIBLE_TEXT_TAGS

_is_positive_context(tag, attr, attrs) ==
    IF attr # NoAttr
    THEN IF tag = "input" /\ attr = "value"
         THEN LET input_type == AttrGet(attrs, "type", Word("")).text
                  class_value == AttrGet(attrs, "class", Word("")).text
              IN  IF input_type = "password" THEN FALSE
                  ELSE \/ HasAttr(attrs, "readonly")
                       \/ HasAttr(attrs, "disabled")
                       \/ class_value \in INPUT_POSITIVE_CLASS_HINTS
                       \/ input_type \in {"text", "tel", "hidden", ""}
         ELSE FALSE
    ELSE IF tag = NoTag THEN TRUE
    ELSE tag \in VISIBLE_TEXT_TAGS

\* the places of a document a token may sit in
Places ==
    {"script", "style", "iframe", "input_readonly", "input_password", "p",
     "bare"}

\* and three more for the documents the scanner is fed on its own: the
\* path of the href of an a element, on an infra host or on another, and
\* text that follows a br
ScannerPlaces == Places \cup {"a_href_infra", "a_href", "br"}

Tokens == {LegacyAddress, Bech32Lower, Bech32Upper, Bech32Mixed, IbanNumber}

Element(place, token) == [place |-> place, token |-> token]

StartTag(tag, attrs, at) == [ev |-> "start", tag |-> tag, attrs |-> attrs, at |-> at]
EndTag(tag) == [ev |-> "end", tag |-> tag]
Data(data) == [ev |-> "data", data |-> data]

\* the events HTMLParser.feed produces for the element at index at
Markup(e, at) ==
    IF e.place \in {"script", "style", "iframe", "p"}
    THEN <<StartTag(e.place, <<>>, at),
           Data(<<Located(e.token, "raw", at)>>), EndTag(e.place)>>
    ELSE IF e.place = "input_readonly"
    THEN <<StartTag("input", << <<"readonly", NoValue>>,
                                <<"value", e.token>> >>, at)>>
    ELSE IF e.place = "input_password"
    THEN <<StartTag("input", << <<"type", Word("password")>>,
                                <<"value", e.token>> >>, at)>>
    ELSE IF e.place = "a_href_infra"
    THEN <<StartTag("a", << <<"href", UrlValue("cdn.jsdelivr.net", e.token)>> >>,
                    at),
           EndTag("a")>>
    ELSE IF e.place = "a_href"
    THEN <<StartTag("a", << <<"href", UrlValue("pay.example", e.token)>> >>,
                    at),
           EndTag("a")>>
    ELSE IF e.place = "br"
    THEN <<StartTag("br", <<>>, at), Data(<<Located(e.token, "raw", at)>>)>>
    ELSE <<Data(<<Located(e.token, "raw", at)>>)>>

\* the events of the whole document; text that follows text reaches
\* handle_data in one piece
RECURSIVE Feed(_, _, _)
Feed(html, at, events) ==
    IF at > Len(html) THEN events
    ELSE IF /\ html[at].place = "bare"
            /\ events # <<>>
            /\ events[Len(events)].ev = "data"
    THEN Feed(html, at + 1,
              [events EXCEPT ![Len(events)].data =
                   Append(@, Located(html[at].token, "raw", at))])
    ELSE Feed(html, at + 1, events \o Markup(html[at], at))

\* _CryptoDOMScanner: its stack, block_depth and the recorded matches (the
\* lists of self.matches, flattened in the order they were recorded)
NewScanner == [stack |-> <<>>, block_depth |-> 0, matches |-> <<>>]

RECURSIVE _record_matches(_, _, _, _, _, _)
_record_matches(matches, found, tag, attr, positive, infra) ==
    IF found = <<>> THEN matches
    ELSE _record_matches(
             Append(matches,
                    [indicator_type |-> Head(found)[1],
                     value |-> Head(found)[2], tag |-> tag, attr |-> attr,
                     positive |-> positive, infra |-> infra,
                     at |-> Head(found)[3]]),
             Tail(found), tag, attr, positive, infra)

\* the text of an attribute value
AttrText(v, at) ==
    IF v.kind = "word" THEN <<>>
    ELSE IF v.kind = "url" THEN <<Located(v.token, "raw", at)>>
    ELSE <<Located(v, "raw", at)>>

\* lines 195-203: the attributes of a start tag that is not blocked
RECURSIVE ScanAttrs(_, _, _, _, _)
ScanAttrs(matches, tag, attrs, i, at) ==
    IF i > Len(attrs) THEN matches
    ELSE IF \/ attrs[i][2] = NoValue
            \/ attrs[i][1] \in INFRA_ATTR_NAMES /\ tag \in BLOCKED_ATTR_TAGS
    THEN ScanAttrs(matches, tag, attrs, i + 1, at)
    ELSE ScanAttrs(
             _record_matches(matches,
                 _iter_crypto_matches(AttrText(attrs[i][2], at)), tag,
                 attrs[i][1],
                 _is_positive_context(tag, attrs[i][1], attrs),
                 IF attrs[i][1] \in INFRA_ATTR_NAMES
                 THEN _is_infra_url(attrs[i][2]) ELSE FALSE),
             tag, attrs, i + 1, at)

handle_starttag(s, e) ==
    LET depth == IF e.tag \in BLOCKED_TAGS THEN s.block_depth + 1
                 ELSE s.block_depth
        pushed == Append(s.stack, [tag |-> e.tag, attrs |-> e.attrs])
    IN  IF depth > 0 \/ e.tag \in BLOCKED_ATTR_TAGS
        THEN [stack |-> pushed, block_depth |-> depth, matches |-> s.matches]
        ELSE [stack |-> pushed, block_depth |-> depth,
              matches |-> ScanAttrs(s.matches, e.tag, e.attrs, 1, e.at)]

handle_endtag(s, e) ==
    [stack |-> IF s.stack = <<>> THEN <<>>
               ELSE SubSeq(s.stack, 1, Len(s.stack) - 1),
     block_depth |-> IF e.tag \in BLOCKED_TAGS /\ s.block_depth > 0
                     THEN s.block_depth - 1 ELSE s.block_depth,
     matches |-> s.matches]

handle_data(s, e) ==
    LET current == IF s.stack = <<>> THEN [tag |-> NoTag, attrs |-> <<>>]
                   ELSE s.stack[Len(s.stack)]
    IN  IF s.block_depth > 0 \/ current.tag \in BLOCKED_ATTR_TAGS THEN s
        ELSE [s EXCEPT !.matches =
                 _record_matches(@, _iter_crypto_matches(e.data), current.tag,
                     NoAttr,
                     _is_positive_context(current.tag, NoAttr, current.attrs),
                     FALSE)]

\* scanner.feed(html_content)
RECURSIVE _CryptoDOMScanner(_, _)
_CryptoDOMScanner(s, events) ==
    IF events = <<>> THEN s
    ELSE LET e == Head(events)
         IN  _CryptoDOMScanner(
                 IF e.ev = "start" THEN handle_starttag(s, e)
                 ELSE IF e.ev = "end" THEN handle_endtag(s, e)
                 ELSE handle_data(s, e),
                 Tail(events))

ExtractedData(type, value, context) ==
    [type |-> type, value |-> value, context |-> context]

\* the markup as a corpus: every token of the document with its index
RECURSIVE RawCorpus(_, _)
RawCorpus(html, at) ==
    IF at > Len(html) THEN <<>>
    ELSE <<Located(html[at].token, "raw", at)>>
         \o RawCorpus(html, at + 1)

\* strip_html: script and style elements are removed with their bodies,
\* every other tag is removed with its attributes and its text is kept
RECURSIVE strip_html(_, _)
strip_html(html, at) ==
    IF at > Len(html) THEN <<>>
    ELSE (IF html[at].place \in {"iframe", "p", "bare", "br"}
          THEN <<Located(html[at].token, "plain", at)>>
          ELSE <<>>)
         \o strip_html(html, at + 1)

\* an extra string (label, text) as a corpus of its own
RECURSIVE ExtraCorpora(_, _)
ExtraCorpora(extra_strings, i) ==
    IF i > Len(extra_strings) THEN <<>>
    ELSE << <<Located(extra_strings[i][2], "extra", i)>> >>
         \o ExtraCorpora(extra_strings, i + 1)

\* _build_context: raw_html.find(value), the first occurrence of value in
\* the markup wherever it is; the chosen context's text otherwise
_build_context(html, value, chosen) ==
    IF \E i \in 1..Len(html) : html[i].token = value
    THEN [corpus |-> "raw",
          at |-> CHOOSE i \in 1..Len(html) :
                    /\ html[i].token = value
                    /\ \A j \in 1..(i - 1) : html[j].token # value]
    ELSE [corpus |-> "extra", at |-> chosen.at]

\* lines 263-279: the extra strings, unconditionally positive
RECURSIVE ExtraMatches(_, _, _)
ExtraMatches(matches, extra_strings, i) ==
    IF i > Len(extra_strings) THEN matches
    ELSE ExtraMatches(
             _record_matches(matches,
                 _iter_crypto_matches(
                     <<Located(extra_strings[i][2], "extra", i)>>),
                 "extra", extra_strings[i][1], TRUE, FALSE),
             extra_strings, i + 1)

\* variant of CryptoResults: a key is reported whatever its contexts are
RECURSIVE CryptoResultsAnyContext(_, _, _, _)
CryptoResultsAnyContext(html, matches, i, results) ==
    IF i > Len(matches) THEN results
    ELSE LET m == matches[i]
             first == \A j \in 1..(i - 1) :
                         <<matches[j].indicator_type, matches[j].value>>
                             # <<m.indicator_type, m.value>>
         IN  IF first
             THEN CryptoResultsAnyContext(html, matches, i + 1,
                      Append(results,
                          ExtractedData(m.indicator_type, m.value,
                              _build_context(html, m.value, m))))
             ELSE CryptoResultsAnyContext(html, matches, i + 1, results)

\* lines 281-289: one entry per key of scanner.matches, in insertion order,
\* when one of its contexts is positive and not infra
RECURSIVE CryptoResults(_, _, _, _)
CryptoResults(html, matches, i, results) ==
    IF i > Len(matches) THEN results
    ELSE LET m == matches[i]
             first == \A j \in 1..(i - 1) :
                         <<matches[j].indicator_type, matches[j].value>>
                             # <<m.indicator_type, m.value>>
             positive_contexts ==
                 SelectSeq(matches,
                     LAMBDA c : /\ c.indicator_type = m.indicator_type
                                /\ c.value = m.value
                                /\ c.positive /\ ~c.infra)
         IN  IF first /\ positive_contexts # <<>>
             THEN CryptoResults(html, matches, i + 1,
                      Append(results,
                          ExtractedData(m.indicator_type, m.value,
                              _build_context(html, m.value,
                                             positive_contexts[1]))))
             ELSE CryptoResults(html, matches, i + 1, results)

\* lines 260-279: the contexts in scanner.matches when the results are
\* built, in the order they were recorded
RecordedContexts(html_content, extra_strings) ==
    ExtraMatches(
        _CryptoDOMScanner(NewScanner, Feed(html_content, 1, <<>>)).matches,
        extra_strings, 1)

_extract_crypto_from_html(html_content, extra_strings) ==
    CryptoResults(html_content,
        RecordedContexts(html_content, extra_strings), 1, <<>>)

\* data_extractor._collect, lines 292-308
RECURSIVE _collect(_, _, _)
_collect(pattern, text, indicator_type) ==
    IF text = <<>> THEN <<>>
    ELSE (IF PatternMatches(pattern, Head(text).token)
          THEN <<ExtractedData(indicator_type, Head(text).token,
                     [corpus |-> Head(text).corpus, at |-> Head(text).at])>>
          ELSE <<>>)
         \o _collect(pattern, Tail(text), indicator_type)

\* variant of DedupLoop: a repeated key is kept
RECURSIVE DedupLoopNoSeen(_, _, _)
DedupLoopNoSeen(indicators, seen_keys, unique) ==
    IF indicators = <<>> THEN unique
    ELSE IF Head(indicators).value = EmptyValue
    THEN DedupLoopNoSeen(Tail(indicators), seen_keys, unique)
    ELSE DedupLoopNoSeen(Tail(indicators), seen_keys,
                         Append(unique, Head(indicators)))

\* data_extractor._deduplicate, lines 311-320
RECURSIVE DedupLoop(_, _, _)
DedupLoop(indicators, seen_keys, unique) ==
    IF indicators = <<>> THEN unique
    ELSE LET indicator == Head(indicators)
             key == <<indicator.type, indicator.value>>
         IN  IF key \in seen_keys \/ indicator.value = EmptyValue
             THEN DedupLoop(Tail(indicators), seen_keys, unique)
             ELSE DedupLoop(Tail(indicators), seen_keys \cup {key},
                            Append(unique, indicator))

_deduplicate(indicators) == DedupLoop(indicators, {}, <<>>)

\* lines 327-333 and 70-78: the corpora of a document
Corpora(html_content, extra_strings) ==
    <<strip_html(html_content, 1), RawCorpus(html_content, 1)>>
        \o ExtraCorpora(extra_strings, 1)

\* lines 337-340: the bank-detail passes over every corpus
RECURSIVE CollectAll(_)
CollectAll(corpora) ==
    IF corpora = <<>> THEN <<>>
    ELSE _collect("IBAN_PATTERN", Head(corpora), "IBAN")
         \o _collect("BENEFICIARY_PATTERN", Head(corpora), "BENEFICIARY_NAME")
         \o _collect("BANK_PATTERN", Head(corpora), "BANK_NAME")
         \o CollectAll(Tail(corpora))

\* the list found of extract_from_html, before _deduplicate
FoundInHtml(html_content, extra_strings) ==
    _extract_crypto_from_html(html_content, extra_strings)
        \o CollectAll(Corpora(html_content, extra_strings))

extract_from_html(html_content, extra_strings) ==
    _deduplicate(FoundInHtml(html_content, extra_strings))

\* parsing.py: an Indicator, and _collect with the source_url (lines 48-61)
Indicator(type, value, source_url, context) ==
    [type |-> type, value |-> value, source_url |-> source_url,
     context |-> context, artifact |-> NoPath]

RECURSIVE parsing_collect(_, _, _, _)
parsing_collect(pattern, text, indicator_type, source_url) ==
    IF text = <<>> THEN <<>>
    ELSE (IF PatternMatches(pattern, Head(text).token)
          THEN <<Indicator(indicator_type, Head(text).token, source_url,
                     [corpus |-> Head(text).corpus, at |-> Head(text).at])>>
          ELSE <<>>)
         \o parsing_collect(pattern, Tail(text), indicator_type, source_url)

\* parsing._deduplicate, lines 93-102
RECURSIVE ParsingDedupLoop(_, _, _)
ParsingDedupLoop(indicators, seen_keys, unique) ==
    IF indicators = <<>> THEN unique
    ELSE LET indicator == Head(indicators)
             key == <<indicator.type, indicator.value, indicator.source_url>>
         IN  IF key \in seen_keys \/ indicator.value = EmptyValue
             THEN ParsingDedupLoop(Tail(indicators), seen_keys, unique)
             ELSE ParsingDedupLoop(Tail(indicators), seen_keys \cup {key},
                                   Append(unique, indicator))

parsing_deduplicate(indicators) == ParsingDedupLoop(indicators, {}, <<>>)

\* lines 80-89: every pattern over every corpus
RECURSIVE ParsingCollectAll(_, _)
ParsingCollectAll(corpora, source_url) ==
    IF corpora = <<>> THEN <<>>
    ELSE parsing_collect("IBAN_PATTERN", Head(corpora), "IBAN", source_url)
         \o parsing_collect("BTC_PATTERN", Head(corpora), "BTC", source_url)
         \o parsing_collect("ETH_PATTERN", Head(corpora), "ETH", source_url)
         \o parsing_collect("TRON_PATTERN", Head(corpora), "TRON", source_url)
         \o parsing_collect("BENEFICIARY_PATTERN", Head(corpora),
                            "BENEFICIARY_NAME", source_url)
         \o parsing_collect("BANK_PATTERN", Head(corpora), "BANK_NAME",
                            source_url)
         \o ParsingCollectAll(Tail(corpora), source_url)

extract_indicators(raw_html, source_url, extra_strings) ==
    parsing_deduplicate(
        ParsingCollectAll(Corpora(raw_html, extra_strings), source_url))

(***************************************************************************)
(* The extraction functions called on their own.                           *)
(***************************************************************************)
Elements == {Element(place, token) : place \in Places, token \in Tokens}

\* the documents: up to MaxElements elements
Documents == SeqsUpTo(Elements, MaxElements)

\* the extra strings a caller passes with a document
ExtraStringLists ==
    {<< <<"input_value", LegacyAddress>> >>,
     << <<"copy_neighbor", Bech32Mixed>> >>}

\* the (html, extra_strings) arguments
ExtractInputs ==
    {<<html, <<>> >> : html \in Documents}
        \cup {<<html, extra>> : html \in SeqsUpTo(Elements, 1),
                                extra \in ExtraStringLists}

\* the entries _deduplicate may be given, and the lists of them
FoundEntries ==
    {ExtractedData(type, value, [corpus |-> "raw", at |-> at]) :
        type \in {"BTC", "IBAN"},
        value \in {EmptyValue, LegacyAddress, IbanNumber},
        at \in {1, 2}}

FoundLists == SeqsUpTo(FoundEntries, MaxFound)

ExtractInit == NotRunning /\ call = NoCall

ExtractFromHtmlCall ==
    /\ call = NoCall
    /\ \E input \in ExtractInputs :
          call' = [fn |-> "extract_from_html", html |-> input[1],
                   extra_strings |-> input[2],
                   found |-> FoundInHtml(input[1], input[2]),
                   returned |-> extract_from_html(input[1], input[2])]
    /\ UNCHANGED run_vars

ExtractIndicatorsCall ==
    /\ call = NoCall
    /\ \E input \in ExtractInputs :
          call' = [fn |-> "extract_indicators", html |-> input[1],
                   extra_strings |-> input[2],
                   returned |-> extract_indicators(input[1], HomeA, input[2])]
    /\ UNCHANGED run_vars

DeduplicateCall ==
    /\ call = NoCall
    /\ \E indicators \in FoundLists :
          call' = [fn |-> "_deduplicate", found |-> indicators,
                   returned |-> _deduplicate(indicators)]
    /\ UNCHANGED run_vars

ExtractNext ==
    \/ ExtractFromHtmlCall
    \/ ExtractIndicatorsCall
    \/ DeduplicateCall
    \/ CallReturns

ExtractSpec == ExtractInit /\ [][ExtractNext]_vars

(***************************************************************************)
(* The DOM scanner and _extract_crypto_from_html called on their own, on   *)
(* documents that also have URLs in attributes and text after a br.        *)
(***************************************************************************)
ScannerTokens == {LegacyAddress, Bech32Lower}

ScannerElements ==
    {Element(place, token) : place \in ScannerPlaces, token \in ScannerTokens}

ScannerDocuments == SeqsUpTo(ScannerElements, MaxElements)

ScannerExtraStrings == {<<>>} \cup ExtraStringLists

\* the scanner before each event of events, and after the last
ScannerStates(events) ==
    [i \in 1..(Len(events) + 1) |->
        _CryptoDOMScanner(NewScanner, SubSeq(events, 1, i - 1))]

ScannerInit == NotRunning /\ call = NoCall

ExtractCryptoCall ==
    /\ call = NoCall
    /\ \E html \in ScannerDocuments, extra \in ScannerExtraStrings :
          call' = [fn |-> "_extract_crypto_from_html", html |-> html,
                   extra_strings |-> extra,
                   contexts |-> RecordedContexts(html, extra),
                   returned |-> _extract_crypto_from_html(html, extra)]
    /\ UNCHANGED run_vars

ScannerFeedCall ==
    /\ call = NoCall
    /\ \E html \in ScannerDocuments :
          call' = [fn |-> "feed", html |-> html,
                   events |-> Feed(html, 1, <<>>),
                   states |-> ScannerStates(Feed(html, 1, <<>>))]
    /\ UNCHANGED run_vars

ScannerNext ==
    \/ ExtractCryptoCall
    \/ ScannerFeedCall
    \/ CallReturns

ScannerSpec == ScannerInit /\ [][ScannerNext]_vars

(***************************************************************************)
(* The offline scan of an archive (archive_scanner.run_archive_scan) and   *)
(* the run-level indicator list of the inline path (extract.py).           *)
(* An archive is the state of mapping.json (absent; present but not        *)
(* loadable, with the exception the load raises; or loaded) and the pages  *)
(* it lists.  A page entry has a url, a content_path or none, and the      *)
(* state of the file content_path resolves to: missing, unreadable         *)
(* (read_text raises OSError) or readable with its markup.  The artifact   *)
(* of the i-th entry is named <<i, "html">>.                               *)
(***************************************************************************)
DepositPage == <<Element("p", LegacyAddress)>>
WalletPage == <<Element("input_readonly", LegacyAddress), Element("p", IbanNumber)>>
ScriptOnlyPage == <<Element("script", LegacyAddress)>>

ArchivedDocuments == {DepositPage, WalletPage, ScriptOnlyPage}

PageUrls == {HomeA, HomeLogin}

PageEntry(url, has_content_path, file, html) ==
    [url |-> url, has_content_path |-> has_content_path, file |-> file,
     html |-> html]

PageEntries ==
    {PageEntry(url, FALSE, "missing", <<>>) : url \in PageUrls}
        \cup {PageEntry(url, TRUE, file, <<>>) :
                 url \in PageUrls, file \in {"missing", "unreadable"}}
        \cup {PageEntry(url, TRUE, "readable", html) :
                 url \in PageUrls, html \in ArchivedDocuments}

\* what loading a mapping.json that exists may raise (line 77)
MappingLoadErrors == {"JSONDecodeError", "IsADirectoryError"}

Archives ==
    {[mapping |-> "absent", pages |-> <<>>]}
        \cup {[mapping |-> e, pages |-> <<>>] : e \in MappingLoadErrors}
        \cup {[mapping |-> "loaded", pages |-> pages] :
                 pages \in SeqsUpTo(PageEntries, MaxScanPages)}

\* lines 98-107: the findings of one page
RECURSIVE PageFindings(_, _, _)
PageFindings(matches, page_path, source_url) ==
    IF matches = <<>> THEN <<>>
    ELSE <<[type |-> Head(matches).type, value |-> Head(matches).value,
            context |-> Head(matches).context, page_path |-> page_path,
            source_url |-> source_url]>>
         \o PageFindings(Tail(matches), page_path, source_url)

\* variant of ScanLoop: the scan stops at the first artifact that is
\* missing or unreadable
RECURSIVE ScanLoopStopsAtGap(_, _, _)
ScanLoopStopsAtGap(pages, i, findings) ==
    IF i > Len(pages) THEN findings
    ELSE IF ~pages[i].has_content_path
    THEN ScanLoopStopsAtGap(pages, i + 1, findings)
    ELSE IF pages[i].file \in {"missing", "unreadable"}
    THEN findings
    ELSE ScanLoopStopsAtGap(pages, i + 1,
             findings \o PageFindings(extract_from_html(pages[i].html, <<>>),
                                      <<i, "html">>, pages[i].url))

\* lines 81-107: the loop over the pages of the mapping
RECURSIVE ScanLoop(_, _, _)
ScanLoop(pages, i, findings) ==
    IF i > Len(pages) THEN findings
    ELSE IF ~pages[i].has_content_path
    THEN ScanLoop(pages, i + 1, findings)
    ELSE IF pages[i].file = "missing"
    THEN ScanLoop(pages, i + 1, findings)
    ELSE IF pages[i].file = "unreadable"
    THEN ScanLoop(pages, i + 1, findings)
    ELSE ScanLoop(pages, i + 1,
             findings \o PageFindings(extract_from_html(pages[i].html, <<>>),
                                      <<i, "html">>, pages[i].url))

\* what a call of run_archive_scan ends with: the ArchiveScanResult it
\* returns (written: extraction_results.json was written) or the exception
\* that leaves it
ArchiveScanResult(status, findings, written) ==
    [raised |-> "none", status |-> status, findings |-> findings,
     written |-> written]

ScanRaises(exception) ==
    [raised |-> exception, status |-> "none", findings |-> <<>>,
     written |-> FALSE]

run_archive_scan(archive) ==
    IF archive.mapping = "absent"
    THEN ArchiveScanResult("error", <<>>, FALSE)
    ELSE IF archive.mapping \in MappingLoadErrors
    THEN ScanRaises(archive.mapping)
    ELSE LET findings == ScanLoop(archive.pages, 1, <<>>)
         IN  ArchiveScanResult(IF findings = <<>> THEN "no_matches"
                               ELSE "complete",
                               findings, TRUE)

\* extract.py: the views a run captures after login, each the page.url and
\* the markup page.content() returned
Views == [url : PageUrls, html : ArchivedDocuments]

\* _tag_indicators, lines 545-556
RECURSIVE _tag_indicators(_, _)
_tag_indicators(indicators, html_path) ==
    IF indicators = <<>> THEN <<>>
    ELSE <<[Head(indicators) EXCEPT !.artifact = html_path]>>
         \o _tag_indicators(Tail(indicators), html_path)

\* capture_page_state for the i-th view, lines 575-580
capture_page_state(view, i) ==
    _tag_indicators(extract_indicators(view.html, view.url, <<>>),
                    <<i, "html">>)

\* run_extraction lines 187-197 with scan_current_view and
\* explore_interesting_pages: indicator_records is extended by the
\* indicators of every captured view
RECURSIVE indicator_records(_, _)
indicator_records(views, i) ==
    IF i > Len(views) THEN <<>>
    ELSE capture_page_state(views[i], i) \o indicator_records(views, i + 1)

ScanInit == NotRunning /\ call = NoCall

RunArchiveScanCall ==
    /\ call = NoCall
    /\ \E archive \in Archives :
          call' = [fn |-> "run_archive_scan", archive |-> archive,
                   returned |-> run_archive_scan(archive)]
    /\ UNCHANGED run_vars

\* a run_extraction whose login succeeded: views is what it captured
RunExtractionCall ==
    /\ call = NoCall
    /\ \E views \in SeqsUpTo(Views, MaxScanPages) \ {<<>>} :
          call' = [fn |-> "run_extraction", views |-> views,
                   returned |-> [status |-> "complete",
                                 indicators |-> indicator_records(views, 1)]]
    /\ UNCHANGED run_vars

ScanNext ==
    \/ RunArchiveScanCall
    \/ RunExtractionCall
    \/ CallReturns

ScanSpec == ScanInit /\ [][ScanNext]_vars

(***************************************************************************)
(* Properties of run_mapping.                                              *)
(***************************************************************************)
LastRecord == page_records[Len(page_records)]

\* the queue entries and page.goto calls a step adds
NewSameSite ==
    SubSeq(same_site_queue', Len(Dequeued.same_site_queue) + 1,
           Len(same_site_queue'))

NewExternal ==
    SubSeq(external_queue', Len(Dequeued.external_queue) + 1,
           Len(external_queue'))

NewRequests ==
    SubSeq(crawl_requests', Len(crawl_requests) + 1, Len(crawl_requests'))

\* a step of the crawl loop that takes a target
IterationStep == pc = "loop" /\ LoopGuard

RecordAppended == page_records' # page_records

\* the step leaves the queues as the dequeue left them: nothing is enqueued
NothingEnqueued ==
    /\ same_site_queue' = Dequeued.same_site_queue
    /\ external_queue' = Dequeued.external_queue

\* C1: the number of PageRecords never exceeds max_pages during the crawl,
\* and the pages of the returned MappingResult are at most max_pages.
C1_PageCap ==
    /\ Len(page_records) <= inputs.max_pages
    /\ result # NoResult => Len(result.pages) <= inputs.max_pages

\* the cap ends a crawl that still has targets queued
C1_Witness ==
    /\ pc = "done"
    /\ inputs.max_pages >= 2
    /\ Len(result.pages) = inputs.max_pages
    /\ same_site_queue # <<>>

DepthInRange ==
    /\ \A i \in 1..Len(same_site_queue) :
          same_site_queue[i][2] \in 0..inputs.max_depth
    /\ \A i \in 1..Len(external_queue) :
          external_queue[i][2] \in 0..inputs.max_depth
    /\ \A i \in 1..Len(page_records) :
          page_records[i].depth \in 0..inputs.max_depth

DepthStep ==
    IterationStep =>
        /\ \A i \in 1..Len(NewSameSite) :
              NewSameSite[i][2] = Dequeued.depth + 1
        /\ \A i \in 1..Len(NewExternal) :
              NewExternal[i][2] = Dequeued.depth + 1
        /\ Dequeued.depth >= inputs.max_depth => NothingEnqueued

\* C2: every queued target and every PageRecord has a depth in
\* 0..max_depth; links found on a page at depth d < max_depth are enqueued
\* at depth d+1 and links of a page at depth max_depth are never enqueued.
C2_DepthBounded == []DepthInRange /\ [][DepthStep]_vars

\* a page at depth max_depth >= 1 is archived, its links are not enqueued,
\* and a target found on a page one level up is still queued at max_depth
C2_Witness ==
    /\ cur.outcome = "archived"
    /\ inputs.max_depth >= 1
    /\ cur.depth = inputs.max_depth
    /\ ~cur.skip_link_expansion
    /\ same_site_queue # <<>>
    /\ Head(same_site_queue)[2] = inputs.max_depth

\* the foreign domains on which at least two completed navigations have
\* landed on a login-like URL
WalledDomains ==
    {d \in DOMAIN login_redirect_counts :
        /\ d # <<>>
        /\ d # home_domain
        /\ login_redirect_counts[d] >= 2}

\* C3 as stated: once two completed navigations have landed on login-like
\* URLs of the same foreign domain, no PageRecord appended later has a url
\* on that domain.
C3_NoLaterRecordOnDomain ==
    [][\A d \in WalledDomains :
          RecordAppended =>
              _registrable_domain(page_records'[Len(page_records')].url) # d]_vars

\* C3 amended: once two completed navigations have landed on login-like
\* URLs of the same foreign domain, no navigation is requested for a target
\* on that domain; a PageRecord appended later has a url on that domain only
\* when its target is on another domain and was redirected there, and the
\* links of such a page are neither harvested nor enqueued.
C3_NoLaterTargetOnDomain ==
    [][\A d \in WalledDomains :
          /\ \A i \in 1..Len(NewRequests) :
                _registrable_domain(NewRequests[i].url) # d
          /\ (/\ RecordAppended
              /\ _registrable_domain(page_records'[Len(page_records')].url) = d)
             => /\ _registrable_domain(
                       page_records'[Len(page_records')].original_url) # d
                /\ cur'.outcome = "archived"
                /\ NothingEnqueued]_vars

\* two pages landed on login-like URLs of a foreign domain, and a later
\* record, of a target on the home domain, has its url on that domain
C3_Witness ==
    /\ Len(page_records) >= 3
    /\ \E i, j \in 1..Len(page_records) :
          /\ i < j /\ j < Len(page_records)
          /\ _looks_like_login(page_records[i].url)
          /\ _looks_like_login(page_records[j].url)
          /\ _registrable_domain(page_records[i].url)
                 = _registrable_domain(LastRecord.url)
          /\ _registrable_domain(page_records[j].url)
                 = _registrable_domain(LastRecord.url)
    /\ _registrable_domain(LastRecord.url) \in WalledDomains
    /\ _registrable_domain(LastRecord.original_url) = home_domain

\* C4: the blocked set only grows; no navigation is requested for a target
\* on a domain that is in it, and no link on a domain in it is enqueued.
C4_BlockedDomains ==
    [][/\ blocked_auth_domains \subseteq blocked_auth_domains'
       /\ \A i \in 1..Len(NewRequests) :
             _registrable_domain(NewRequests[i].url) \notin blocked_auth_domains
       /\ IterationStep =>
             /\ \A i \in 1..Len(NewSameSite) :
                   _registrable_domain(NewSameSite[i][1])
                       \notin blocked_auth_domains'
             /\ \A i \in 1..Len(NewExternal) :
                   _registrable_domain(NewExternal[i][1])
                       \notin blocked_auth_domains']_vars

\* a domain is blocked and a page archived afterwards offers a link on it
C4_Witness ==
    /\ blocked_auth_domains # {}
    /\ cur.outcome = "expanded"
    /\ cur.anchors # AnchorsFail
    /\ \E i \in 1..Len(cur.anchors) :
          _registrable_domain(cur.anchors[i]) \in blocked_auth_domains
    /\ \A i \in 1..Len(same_site_queue) :
          _registrable_domain(same_site_queue[i][1])
              \notin blocked_auth_domains

\* C5 as stated: the returned status is error when pages is empty, partial
\* when the number of pages has reached max_pages, complete otherwise.
C5_StatusDerivation ==
    result # NoResult =>
        result.status =
            IF result.pages = <<>> THEN "error"
            ELSE IF Len(result.pages) >= inputs.max_pages THEN "partial"
            ELSE "complete"

\* C6 as stated: an error raised while one target is processed never ends
\* the loop, so a run that entered the loop ends only when both queues are
\* empty or the page cap is reached.
C6_LoopSurvivesTargetErrors ==
    (pc = "done" /\ logged_in) => ~LoopGuard

NavigationErrors == {"timeout", "error", "unexpected"}

\* C7: a failed navigation appends exactly one PageRecord with the
\* normalized target as url, no status, no artifacts and the error set,
\* enqueues nothing, leaves the target visited, and the loop goes on.
C7_FailedNavigation ==
    [][(IterationStep /\ cur'.outcome = "failed") =>
          /\ Len(page_records') = Len(page_records) + 1
          /\ SubSeq(page_records', 1, Len(page_records)) = page_records
          /\ page_records'[Len(page_records')].url
                 = _normalize_url(Dequeued.target_url)
          /\ page_records'[Len(page_records')].original_url
                 = Dequeued.target_url
          /\ page_records'[Len(page_records')].status_code = NoStatus
          /\ page_records'[Len(page_records')].content_path = NoPath
          /\ page_records'[Len(page_records')].screenshot_path = NoPath
          /\ page_records'[Len(page_records')].error \in NavigationErrors
          /\ NothingEnqueued
          /\ _normalize_url(Dequeued.target_url) \in seen'
          /\ pc' = "loop"]_vars

\* a navigation failed and a target queued behind it was processed next
C7_Witness ==
    \E i \in 1..Len(page_records) :
       /\ i < Len(page_records)
       /\ page_records[i].error \in NavigationErrors
       /\ page_records[i].url \in seen
       /\ page_records[i + 1].original_url # page_records[i].original_url

\* C8 as stated: every execution writes mapping.json, with every PageRecord
\* appended before the run ended.
C8_AlwaysSerialized ==
    pc \in {"done", "raised"} =>
        /\ mapping_json # NoResult
        /\ mapping_json.pages = page_records

\* C9: when perform_login reports failure the run ends at once with the
\* login result's status and no pages; nothing is queued and no crawl
\* navigation is requested.
C9_LoginFailure ==
    (login_result # NoResult /\ ~login_result.success) =>
        /\ pc = "done"
        /\ result # NoResult
        /\ result.status = login_result.status
        /\ result.pages = <<>>
        /\ mapping_json = result
        /\ page_records = <<>>
        /\ same_site_queue = <<>>
        /\ external_queue = <<>>
        /\ crawl_requests = <<>>

\* perform_login has reported failure
C9_Witness ==
    /\ login_result # NoResult
    /\ ~login_result.success
    /\ pc = "done"

\* the first page.goto of every safe_goto call
LoadRequests == SelectSeq(crawl_requests, LAMBDA q : q.wait_until = "load")

C11_SessionReleased ==
    pc \in {"done", "raised"} => session = {}

\* C12 as stated: an iteration of the crawl loop issues at most one
\* navigation request for its target.
C12_NoRetry ==
    [][IterationStep => Len(NewRequests) <= 1]_vars

\* C13: the home domain is never in the blocked set.
C13_HomeNeverBlocked ==
    home_domain \notin blocked_auth_domains

\* two completed navigations have landed on login-like URLs of the home
\* domain
C13_Witness ==
    /\ home_domain # <<>>
    /\ home_domain \in DOMAIN login_redirect_counts
    /\ login_redirect_counts[home_domain] >= AUTH_WALL_REDIRECT_THRESHOLD

(***************************************************************************)
(* Properties of the URL helpers.                                          *)
(***************************************************************************)
\* what _normalize_url returned is a URL, not None and not an exception
IsUrl(x) == x # NoneUrl /\ x # RaisedValueError

\* C17 as stated: _normalize_url applied to a URL it returned gives that
\* URL again.
C17_Idempotent ==
    (call.fn = "_normalize_url" /\ IsUrl(call.returned)) =>
        _normalize_url(call.returned) = call.returned

\* C18 as stated: _normalize_url never raises, and returns None for an
\* empty candidate, a candidate without scheme, a mailto or tel candidate,
\* a scheme other than http and https, and a candidate without host.
C18_NeverRaises ==
    call.fn = "_normalize_url" =>
        /\ call.returned # RaisedValueError
        /\ (\/ call.candidate = EmptyCandidate
            \/ SchemeLower(call.candidate.scheme) \notin {"http", "https"}
            \/ Hostname(call.candidate.host) = <<>>)
           => call.returned = NoneUrl

\* a host without one literal leading "www."
WithoutWwwPrefix(h) ==
    IF Len(h) >= 4 /\ SubSeq(h, 1, 4) = <<"w", "w", "w", ".">>
    THEN SubSeq(h, 5, Len(h)) ELSE h

\* C19 as stated: the host _normalize_url and _registrable_domain work
\* with is the parsed host lower-cased, without one literal leading "www."
\* and otherwise with every one of its characters.
C19_OnlyWwwPrefixRemoved ==
    /\ (call.fn = "_normalize_url" /\ IsUrl(call.returned)) =>
           call.returned.host =
               WithoutWwwPrefix(Lower(Hostname(call.candidate.host)))
    /\ call.fn = "_registrable_domain" =>
           call.host = WithoutWwwPrefix(Lower(Hostname(call.candidate.host)))

\* the default port of a scheme
DefaultPort(scheme) ==
    CASE scheme = "http" -> 80 [] scheme = "https" -> 443 [] OTHER -> NoPort

\* C20 as stated: the returned URL carries a port only when the candidate
\* had one and it is not the default port of its scheme.
C20_DefaultPortDropped ==
    (call.fn = "_normalize_url" /\ IsUrl(call.returned)
        /\ call.returned.port # NoPort) =>
        /\ call.candidate.port # NoPort
        /\ call.candidate.port # DefaultPort(call.returned.scheme)

(***************************************************************************)
(* Properties of extract_links.                                            *)
(***************************************************************************)
\* extract_links was called and has returned its list
LinksReturned == call.fn = "extract_links" /\ ~call.returned.raised

\* the normalized form of the i-th anchor of the call
NormalizedAnchor(i) == _normalize_url(call.raw_links[i])

\* the i-th anchor passes every filter of the loop other than the infra one
PassesOtherFilters(i) ==
    /\ IsUrl(NormalizedAnchor(i))
    /\ LinkSurvives(NormalizedAnchor(i), call.args.home_domain,
                    call.args.allow_external, call.args.avoid_auth_links,
                    call.args.external_allowlist, {},
                    call.args.blocked_domains)

\* the i-th anchor passes every filter of the loop
PassesFilters(i) ==
    /\ IsUrl(NormalizedAnchor(i))
    /\ LinkSurvives(NormalizedAnchor(i), call.args.home_domain,
                    call.args.allow_external, call.args.avoid_auth_links,
                    call.args.external_allowlist, call.args.infra_blocklist,
                    call.args.blocked_domains)

ReturnedLinks == {call.returned.links[k] : k \in 1..Len(call.returned.links)}

\* the page of the end-to-end example: a same-site link, an infra link and
\* an external link that is not allowlisted
ThreeLinkPage ==
    /\ call.fn = "extract_links"
    /\ call.raw_links = <<HomeA, InfraUrl, ForeignX>>
    /\ call.args.home_domain = HomeHost
    /\ ~call.args.allow_external
    /\ call.args.infra_blocklist = INFRA_DOMAIN_BLOCKLIST
    /\ call.args.blocked_domains = {}

\* C14: every returned link is same-site for a non-empty home_domain, or
\* allow_external holds and its domain is in external_allowlist; of the
\* three-link page only the same-site link is returned and enqueued.
C14_SameSiteOrAllowlisted ==
    /\ LinksReturned =>
           \A l \in ReturnedLinks :
              \/ /\ call.args.home_domain # <<>>
                 /\ _registrable_domain(l) = call.args.home_domain
              \/ /\ call.args.allow_external
                 /\ _registrable_domain(l) \in call.args.external_allowlist
    /\ ThreeLinkPage =>
           /\ call.returned.links = <<HomeA>>
           /\ call.enqueued.same_site_queue = <<<<HomeA, 1>>>>
           /\ call.enqueued.external_queue = <<>>

\* extract_links has returned from the three-link page
C14_Witness ==
    /\ ThreeLinkPage
    /\ LinksReturned
    /\ Len(call.enqueued.same_site_queue) = 1

\* C15 as stated: a link that passes the other filters is dropped exactly
\* when its domain is in the infra_blocklist argument and is not
\* home_domain.
C15_InfraByArgument ==
    LinksReturned =>
        \A i \in 1..Len(call.raw_links) :
           PassesOtherFilters(i) =>
              (NormalizedAnchor(i) \notin ReturnedLinks
                 <=> /\ _registrable_domain(NormalizedAnchor(i))
                            \in call.args.infra_blocklist
                     /\ _registrable_domain(NormalizedAnchor(i))
                            # call.args.home_domain)

\* the first anchor whose normalized form is l
FirstAnchor(l) ==
    CHOOSE i \in 1..Len(call.raw_links) :
        /\ NormalizedAnchor(i) = l
        /\ \A j \in 1..(i - 1) : NormalizedAnchor(j) # l

\* C16: the returned list holds each surviving normalized URL exactly
\* once, in the order of first occurrence among the anchors, and nothing
\* but normalized forms of anchors.
C16_OrderedDeduplicated ==
    LinksReturned =>
        /\ \A k1, k2 \in 1..Len(call.returned.links) :
              k1 # k2 => call.returned.links[k1] # call.returned.links[k2]
        /\ \A l \in ReturnedLinks :
              \E i \in 1..Len(call.raw_links) :
                 PassesFilters(i) /\ NormalizedAnchor(i) = l
        /\ \A i \in 1..Len(call.raw_links) :
              PassesFilters(i) => NormalizedAnchor(i) \in ReturnedLinks
        /\ \A k1, k2 \in 1..Len(call.returned.links) :
              k1 < k2 => FirstAnchor(call.returned.links[k1])
                            < FirstAnchor(call.returned.links[k2])

\* two anchors have the same normalized form, which is returned, and
\* another link is returned after it
C16_Witness ==
    /\ LinksReturned
    /\ Len(call.returned.links) >= 2
    /\ \E i, j \in 1..Len(call.raw_links) :
          /\ i < j
          /\ call.raw_links[i] # call.raw_links[j]
          /\ NormalizedAnchor(i) = NormalizedAnchor(j)
          /\ NormalizedAnchor(i) = call.returned.links[1]

(***************************************************************************)
(* Properties of the artifact counter and of the auth-wall accounting.     *)
(***************************************************************************)
\* the iteration has archived the landed page (archive_page has returned)
PageArchived == cur'.outcome \in {"archived", "expanded", "raised"}

\* the artifact names the records carry
ArtifactNames(i) ==
    {page_records[i].content_path, page_records[i].screenshot_path}
        \ {NoPath}

CounterStep ==
    /\ page_counter' # page_counter =>
           /\ IterationStep /\ PageArchived /\ RecordAppended
           /\ page_counter' = page_counter + 1
    /\ (IterationStep /\ cur'.outcome \in {"skipped", "failed"}) =>
           page_counter' = page_counter

DistinctArtifactNames ==
    \A i, j \in 1..Len(page_records) :
       i # j => ArtifactNames(i) \cap ArtifactNames(j) = {}

\* C28: the artifact counter moves only when a page is archived, by one;
\* failed navigations and skipped targets leave it unchanged; no two
\* PageRecords carry the same artifact name.
C28_ArtifactCounter == []DistinctArtifactNames /\ [][CounterStep]_vars

\* a failed navigation lies between two archived pages, whose artifact
\* names are consecutive
C28_Witness ==
    \E i, j, k \in 1..Len(page_records) :
       /\ i < j /\ j < k
       /\ page_records[i].content_path # NoPath
       /\ page_records[j].error \in NavigationErrors
       /\ page_records[k].content_path # NoPath
       /\ page_records[k].content_path[1]
              = page_records[i].content_path[1] + 1

\* the landing counter of a domain
LandingCount(counts, d) == IF d \in DOMAIN counts THEN counts[d] ELSE 0

BlockingStep ==
    \A d \in blocked_auth_domains' \ blocked_auth_domains :
       /\ IterationStep /\ PageArchived
       /\ LandingCount(login_redirect_counts, d) = 1
       /\ LandingCount(login_redirect_counts', d) = 2
       /\ _registrable_domain(page_records'[Len(page_records')].url) = d

\* C29: a foreign domain enters the blocked set at the completed
\* navigation at which its count of login-like landings reaches 2, and
\* the set is always the non-empty, non-home domains with a count of at
\* least 2.
C29_BlockedAtSecondLanding ==
    [](blocked_auth_domains = WalledDomains) /\ [][BlockingStep]_vars

\* a run has ended with a foreign domain blocked after two login-like
\* landings on it
C29_Witness ==
    /\ pc = "done"
    /\ blocked_auth_domains # {}
    /\ \E i, j \in 1..Len(page_records) :
          /\ i < j
          /\ _looks_like_login(page_records[i].url)
          /\ _looks_like_login(page_records[j].url)
          /\ _registrable_domain(page_records[i].url) \in blocked_auth_domains
          /\ _registrable_domain(page_records[j].url) \in blocked_auth_domains

\* the url of the record the step appends
LandedUrl == page_records'[Len(page_records')].url

\* C30: a page that lands on a domain that is blocked, by this landing or
\* before it, is archived and none of its links is harvested or enqueued;
\* the first login-like landing on a foreign domain has its links
\* harvested when its depth is below max_depth.
C30_NoExpansionOnBlocked ==
    [][(IterationStep /\ PageArchived /\ RecordAppended) =>
          /\ _registrable_domain(LandedUrl) \in blocked_auth_domains' =>
                /\ cur'.outcome = "archived"
                /\ cur'.skip_link_expansion
                /\ NothingEnqueued
          /\ (/\ _looks_like_login(LandedUrl)
              /\ _registrable_domain(LandedUrl) \notin {<<>>, home_domain}
              /\ LandingCount(login_redirect_counts',
                              _registrable_domain(LandedUrl)) = 1
              /\ Dequeued.depth < inputs.max_depth)
             => cur'.outcome \in {"expanded", "raised"}]_vars

\* a page below max_depth landed on a blocked domain and was archived
\* without its links being harvested
C30_Witness ==
    /\ cur.outcome = "archived"
    /\ cur.depth < inputs.max_depth
    /\ cur.skip_link_expansion
    /\ _registrable_domain(LastRecord.url) \in blocked_auth_domains
    /\ LastRecord.content_path # NoPath

(***************************************************************************)
(* Properties of archive_page.                                             *)
(***************************************************************************)
ArchiveReturned == call # NoCall /\ call.fn = "archive_page"

\* PageRecord.error tells that the HTML capture (the screenshot) failed
RecordsHtmlFailure(error) == error = "html_capture_failed"
RecordsScreenshotFailure(error) == error = "screenshot_failed"

\* C27: in archive_page neither half blocks the other: content_path
\* (screenshot_path) is null exactly when that half failed, and the record's
\* error tells the failure of each half that failed, also when both fail.
C27_HalvesRecorded ==
    ArchiveReturned =>
       /\ call.returned.content_path = NoPath <=> ~call.args.html_ok
       /\ call.returned.screenshot_path = NoPath <=> ~call.args.shot_ok
       /\ ~call.args.html_ok => RecordsHtmlFailure(call.returned.error)
       /\ ~call.args.shot_ok => RecordsScreenshotFailure(call.returned.error)
       /\ (call.args.html_ok /\ call.args.shot_ok)
             => call.returned.error = NoError

(***************************************************************************)
(* Properties of the extraction engines.                                   *)
(***************************************************************************)
ExtractionReturned ==
    call # NoCall /\ call.fn \in {"extract_from_html", "extract_indicators"}

\* the values of the returned entries
ReturnedValues == {call.returned[i].value : i \in 1..Len(call.returned)}

\* the places of the document a token occurs in
PlacesOf(token) ==
    {call.html[i].place : i \in {j \in 1..Len(call.html) :
                                    call.html[j].token = token}}

ExtraValues == {call.extra_strings[i][2] : i \in 1..Len(call.extra_strings)}

\* the crypto addresses among the tokens
CryptoAddresses == {LegacyAddress, Bech32Lower, Bech32Upper}

OnlyInBlockedBodies(a) ==
    /\ PlacesOf(a) # {}
    /\ PlacesOf(a) \subseteq BLOCKED_TAGS
    /\ a \notin ExtraValues

\* the blocked-body rule for the call in progress
BlockedBodyRule ==
    \A a \in CryptoAddresses :
       /\ OnlyInBlockedBodies(a) => a \notin ReturnedValues
       /\ "input_readonly" \in PlacesOf(a) => a \in ReturnedValues

\* C21: an address whose only occurrences are inside script, style or
\* iframe bodies yields no Indicator, and an address in the value of a
\* readonly input outside any blocked element yields one, for
\* extract_from_html and for extract_indicators.
C21_BlockedBodiesSuppressed == ExtractionReturned => BlockedBodyRule

\* the same rule for the offline engine alone
BlockedBodiesSuppressedOffline ==
    (call # NoCall /\ call.fn = "extract_from_html") => BlockedBodyRule

\* a string of the bech32 form with an upper-case and a lower-case letter
MixedCaseBech32(value) ==
    /\ value \in Tokens
    /\ value.kind = "bech32"
    /\ HasLower(value) /\ HasUpper(value)

NoMixedCaseBtc ==
    \A i \in 1..Len(call.returned) :
       call.returned[i].type = "BTC" => ~MixedCaseBech32(call.returned[i].value)

\* C22: no bech32-form string with both an upper-case and a lower-case
\* letter is reported as BTC, by extract_from_html or by extract_indicators.
C22_MixedCaseBech32Rejected == ExtractionReturned => NoMixedCaseBtc

\* the same for the offline engine alone
MixedCaseRejectedOffline ==
    (call # NoCall /\ call.fn = "extract_from_html") => NoMixedCaseBtc

DeduplicateReturned ==
    call # NoCall /\ call.fn \in {"extract_from_html", "_deduplicate"}

EntryKey(entry) == <<entry.type, entry.value>>

\* the indexes of found that hold the first occurrence of a key with a
\* non-empty value
FirstOccurrences(found) ==
    {i \in 1..Len(found) :
        /\ found[i].value # EmptyValue
        /\ \A j \in 1..(i - 1) : EntryKey(found[j]) # EntryKey(found[i])}

\* the entries of found at the indexes of keep, in the order of found
RECURSIVE Restricted(_, _, _)
Restricted(found, keep, i) ==
    IF i > Len(found) THEN <<>>
    ELSE (IF i \in keep THEN <<found[i]>> ELSE <<>>)
         \o Restricted(found, keep, i + 1)

\* C23: the list returned by extract_from_html, and by _deduplicate for any
\* list, has no entry with an empty value and no two entries with the same
\* (type, value); it is the first occurrences of the keys in input order,
\* and _deduplicate applied to it again returns it unchanged.
C23_Deduplicated ==
    DeduplicateReturned =>
       /\ \A i \in 1..Len(call.returned) :
             call.returned[i].value # EmptyValue
       /\ \A i, j \in 1..Len(call.returned) :
             i # j => EntryKey(call.returned[i]) # EntryKey(call.returned[j])
       /\ call.returned
             = Restricted(call.found, FirstOccurrences(call.found), 1)
       /\ _deduplicate(call.returned) = call.returned

\* extract_from_html has returned from a document that holds the same IBAN
\* twice: the IBAN was found twice in each of the two corpora and one entry
\* is returned
C23_Witness ==
    /\ call # NoCall
    /\ call.fn = "extract_from_html"
    /\ Len(call.html) = 2
    /\ call.html[1].token = IbanNumber
    /\ call.html[2] = call.html[1]
    /\ Len(call.found) = 4
    /\ Len(call.returned) = 1

(***************************************************************************)
(* Properties of the offline scan and of the run-level findings.           *)
(***************************************************************************)
ScanCalled == call # NoCall /\ call.fn = "run_archive_scan"

\* the findings list of a whole run
RunFindings ==
    IF call.fn = "run_archive_scan" THEN call.returned.findings
    ELSE call.returned.indicators

FindingKey(f) == <<f.type, f.value, f.source_url>>

\* C24: in the findings list of a whole run (offline scan or inline
\* indicator list) no two entries have the same (type, value, source_url),
\* also when several pages carry the same url.
C24_RunFindingsUnique ==
    (call # NoCall /\ call.fn \in {"run_archive_scan", "run_extraction"}) =>
       \A i, j \in 1..Len(RunFindings) :
          i # j => FindingKey(RunFindings[i]) # FindingKey(RunFindings[j])

\* the entries of the mapping whose artifact is present and readable
Scannable(pages) ==
    {i \in 1..Len(pages) :
        pages[i].has_content_path /\ pages[i].file = "readable"}

\* what the scannable entries up to the i-th yield, in the order of the
\* mapping
RECURSIVE FindingsUpTo(_, _)
FindingsUpTo(pages, i) ==
    IF i = 0 THEN <<>>
    ELSE FindingsUpTo(pages, i - 1)
         \o (IF i \in Scannable(pages)
             THEN PageFindings(extract_from_html(pages[i].html, <<>>),
                               <<i, "html">>, pages[i].url)
             ELSE <<>>)

C26_ScanStatus ==
    ScanCalled =>
       /\ call.returned.raised = "none"
       /\ call.returned.status \in {"complete", "no_matches", "error"}
       /\ call.returned.status = "error" <=> call.archive.mapping # "loaded"
       /\ call.returned.status = "error" => call.returned.findings = <<>>
       /\ call.returned.status = "no_matches" <=>
             (call.archive.mapping = "loaded" /\ call.returned.findings = <<>>)
       /\ call.returned.status = "complete" <=> call.returned.findings # <<>>

\* s is an initial segment of t
IsPrefix(s, t) == Len(s) <= Len(t) /\ SubSeq(t, 1, Len(s)) = s

\* the queue entry the iteration that just ran took
TakenEntry == <<cur'.target_url, cur'.depth>>

QueueDiscipline ==
    IterationStep =>
       /\ cur'.queue_label \in {"same-site", "external"}
       /\ cur'.queue_label = "external" => same_site_queue = <<>>
       /\ cur'.queue_label = "same-site" =>
             /\ same_site_queue # <<>>
             /\ TakenEntry = Head(same_site_queue)
             /\ IsPrefix(Tail(same_site_queue), same_site_queue')
             /\ IsPrefix(external_queue, external_queue')
       /\ cur'.queue_label = "external" =>
             /\ external_queue # <<>>
             /\ TakenEntry = Head(external_queue)
             /\ IsPrefix(Tail(external_queue), external_queue')
             /\ IsPrefix(same_site_queue, same_site_queue')

\* C31: a target is taken from the external queue only in an iteration that
\* finds the same-site queue empty, and each queue is first-in first-out:
\* the target an iteration takes is the oldest entry of its queue, and
\* entries are only ever added behind the ones already waiting.
C31_QueueDiscipline == [][QueueDiscipline]_vars

\* two targets of depth 1 have been taken one after the other while a
\* third entry was still waiting behind them
C31_Witness ==
    /\ Len(page_records) >= 3
    /\ page_records[2].depth = 1
    /\ page_records[3].depth = 1
    /\ page_records[2].original_url # page_records[3].original_url
    /\ same_site_queue # <<>>

NonDecreasing(depths) ==
    \A i, j \in 1..Len(depths) : i < j => depths[i] <= depths[j]

RecordDepths == [i \in 1..Len(page_records) |-> page_records[i].depth]

QueuedDepths == [i \in 1..Len(same_site_queue) |-> same_site_queue[i][2]]

\* C35: the records of a run are appended in breadth-first order: the
\* depths of successive PageRecords, archived and failed, never decrease,
\* and every target still waiting is at least as deep as the last record
\* (no run takes a target from the external queue, which stays empty).
C35_BreadthFirst ==
    external_queue = <<>> =>
       /\ NonDecreasing(RecordDepths \o QueuedDepths)

\* records of depth 0, 1 and 2 in this order, the deepest one a failed
\* navigation, with nothing left to visit
C35_Witness ==
    /\ Len(page_records) = 3
    /\ page_records[1].depth = 0
    /\ page_records[2].depth = 1
    /\ page_records[3].depth = 2
    /\ page_records[3].error \in NavigationErrors
    /\ same_site_queue = <<>>

\* the target the iteration takes is dropped before navigation: its
\* normalized form is invalid, already visited, on an infra domain or on a
\* blocked domain
DroppedBeforeNavigation(target_url) ==
    LET normalized_target == _normalize_url(target_url)
    IN  \/ normalized_target = NoneUrl
        \/ /\ normalized_target # NoneUrl
           /\ \/ normalized_target \in seen
              \/ _is_infra_domain(_registrable_domain(normalized_target),
                                  home_domain)
              \/ _registrable_domain(normalized_target)
                     \in blocked_auth_domains

\* the iteration ends in exactly one of SKIPPED, FAILED and ARCHIVED
TargetOutcome ==
    /\ cur'.outcome \in {"skipped", "failed", "archived", "expanded", "raised"}
    /\ cur'.outcome = "skipped" <=> DroppedBeforeNavigation(cur'.target_url)
    /\ cur'.outcome = "skipped" =>
          /\ page_records' = page_records
          /\ crawl_requests' = crawl_requests
    /\ cur'.outcome = "failed" =>
          /\ Len(page_records') = Len(page_records) + 1
          /\ page_records'[Len(page_records')].error \in NavigationErrors
          /\ page_records'[Len(page_records')].content_path = NoPath
    /\ cur'.outcome \in {"archived", "expanded", "raised"} =>
          /\ Len(page_records') = Len(page_records) + 1
          /\ page_records'[Len(page_records')].error \notin NavigationErrors

\* the skipped target of the iteration is in the visited set afterwards
SkippedIsVisited ==
    cur'.outcome = "skipped" =>
       \/ cur'.target_url \in seen'
       \/ _normalize_url(cur'.target_url) \in seen'

\* C32 as stated: every dequeued target ends in exactly one of ARCHIVED,
\* FAILED and SKIPPED; it is SKIPPED, with no navigation and no PageRecord,
\* when its normalized form is invalid, visited, infra or blocked; and every
\* skipped target is in the visited set afterwards.
C32_TargetOutcomes ==
    [][IterationStep => (TargetOutcome /\ SkippedIsVisited)]_vars

\* the part of C32 that holds: the outcomes, and the visited set after a
\* skip of a target that has a normalized form
TargetOutcomesValidOnly ==
    [][IterationStep =>
          /\ TargetOutcome
          /\ _normalize_url(cur'.target_url) # NoneUrl => SkippedIsVisited]_vars

\* the step in which perform_login has returned success
LoginSuccessStep == ~logged_in /\ logged_in'

\* the crawl starts from the post-login URL alone: start_url, which is the
\* normalized page.url after login, is the one queue entry, at depth 0
CrawlEntered ==
    /\ start_url' \in {NormalizeOr(u) : u \in PostLoginUrls}
    /\ same_site_queue' = << <<start_url', 0>> >>
    /\ external_queue' = <<>>
    /\ page_records' = <<>>
    /\ crawl_requests' = <<>>
    /\ pc' = "loop"

FirstRecordIsStart ==
    page_records # <<>> =>
       /\ logged_in
       /\ page_records[1].depth = 0
       /\ page_records[1].original_url = start_url

\* C34: when perform_login succeeds the post-login URL is queued at depth 0
\* on the same-site queue as the only target and the crawl loop is entered;
\* the first PageRecord of the run has depth 0 and that URL as original_url.
C34_StartsFromPostLoginUrl ==
    [][LoginSuccessStep => CrawlEntered]_vars /\ []FirstRecordIsStart

\* a crawl went on from the post-login URL: its record is the first and a
\* record of a link found on it follows
C34_Witness ==
    /\ logged_in
    /\ Len(page_records) >= 2
    /\ page_records[1].original_url = start_url
    /\ page_records[1].depth = 0
    /\ page_records[2].depth = 1
    /\ inputs.start_url # start_url

Waiting == Len(same_site_queue) + Len(external_queue)

\* what an iteration costs: it appends one record, of which there is room
\* for fewer than max_pages, or it appends none and leaves one target less
\* waiting.  No page, whatever links it offers, allows a third kind.
IterationCost ==
    IterationStep =>
       /\ Len(page_records) < inputs.max_pages
       /\ \/ Len(page_records') = Len(page_records) + 1
          \/ /\ page_records' = page_records
             /\ Len(same_site_queue') + Len(external_queue') = Waiting - 1

\* the loop condition is found false: the run ends without an exception
LoopEnds == pc = "loop" /\ pc' = "done" /\ cur'.outcome # "raised"

\* C33: the crawl loop terminates for every site and every max_pages and
\* max_depth: every run of run_mapping ends, each iteration uses up a
\* record of the budget or a waiting target, and when the loop ends
\* without an exception both queues are empty or the number of PageRecords
\* has reached max_pages.
C33_CrawlTerminates ==
    /\ <>Ended
    /\ [][IterationCost]_vars
    /\ [][LoopEnds => (Waiting = 0 \/ Len(page_records) >= inputs.max_pages)]_vars

\* the run ended at the cap with a target still waiting, after an iteration
\* that skipped a target visited before
C33_Witness ==
    /\ pc = "done"
    /\ logged_in
    /\ cur.outcome # "raised"
    /\ Waiting > 0
    /\ Len(page_records) = inputs.max_pages
    /\ inputs.max_pages >= 3

(***************************************************************************)
(* Properties of the DOM scanner and of _extract_crypto_from_html.         *)
(***************************************************************************)
CryptoReturned == call # NoCall /\ call.fn = "_extract_crypto_from_html"

ContextKey(c) == <<c.indicator_type, c.value>>

\* the recorded contexts of a key, in the order they were recorded
ContextsOf(key) == SelectSeq(call.contexts, LAMBDA c : ContextKey(c) = key)

Qualifying(c) == c.positive /\ ~c.infra

RecordedKeys == {ContextKey(call.contexts[i]) : i \in 1..Len(call.contexts)}

\* how many returned entries have the key
TimesReported(key) ==
    Cardinality({i \in 1..Len(call.returned) :
                    EntryKey(call.returned[i]) = key})

\* C36: _extract_crypto_from_html reports a (type, value) exactly when one
\* of its recorded contexts is positive and not infra, and then exactly
\* once: a value with no such context is not reported however many
\* contexts it has.
C36_ReportedIffQualifying ==
    CryptoReturned =>
       /\ \A key \in RecordedKeys :
             TimesReported(key) =
                IF \E i \in 1..Len(ContextsOf(key)) :
                      Qualifying(ContextsOf(key)[i])
                THEN 1 ELSE 0
       /\ \A i \in 1..Len(call.returned) :
             EntryKey(call.returned[i]) \in RecordedKeys

\* an address has two recorded contexts of which only the second
\* qualifies, and is reported once
C36_Witness ==
    /\ CryptoReturned
    /\ Len(ContextsOf(<<"BTC", LegacyAddress>>)) = 2
    /\ ~Qualifying(ContextsOf(<<"BTC", LegacyAddress>>)[1])
    /\ Qualifying(ContextsOf(<<"BTC", LegacyAddress>>)[2])
    /\ TimesReported(<<"BTC", LegacyAddress>>) = 1


\* the first recorded context of a key that is positive and not infra
FirstQualifying(key) == SelectSeq(ContextsOf(key), Qualifying)[1]

\* the place of a recorded context's own text: an extra string, or the
\* element of the markup the scanner recorded it at
OwnText(c) ==
    [corpus |-> IF c.tag = "extra" THEN "extra" ELSE "raw", at |-> c.at]

\* C37: the context reported for a crypto indicator is the snippet around
\* its first qualifying (positive, non-infra) occurrence; it is never taken
\* from a non-qualifying occurrence such as a script body while a
\* qualifying one exists.
C37_ContextFromQualifying ==
    CryptoReturned =>
       \A i \in 1..Len(call.returned) :
          call.returned[i].context =
             OwnText(FirstQualifying(EntryKey(call.returned[i])))


FeedReturned == call # NoCall /\ call.fn = "feed"

\* the elements of HTML that have no end tag
VoidElements ==
    {"area", "base", "br", "col", "embed", "hr", "img", "input", "link",
     "meta", "source", "track", "wbr"}

\* the tags of the elements still open after the first n events, outermost
\* first: a start tag opens its element unless the element is void, an end
\* tag closes the innermost open element of its tag with all inside it
RECURSIVE OpenElements(_, _)
OpenElements(events, n) ==
    IF n = 0 THEN <<>>
    ELSE LET open == OpenElements(events, n - 1)
             e == events[n]
             same == {k \in 1..Len(open) : open[k] = e.tag}
         IN  IF e.ev = "start"
             THEN IF e.tag \in VoidElements THEN open
                  ELSE Append(open, e.tag)
             ELSE IF e.ev = "end" /\ same # {}
             THEN SubSeq(open, 1,
                         (CHOOSE k \in same : \A j \in same : j <= k) - 1)
             ELSE open

StackTags(s) == [k \in 1..Len(s.stack) |-> s.stack[k].tag]

\* C38: before and after every event of a document the scanner's stack is
\* the list of the elements actually still open, so the tag it treats as
\* current for a piece of text is the innermost open element and a void
\* element (input, br, img, meta) does not stay on the stack; block_depth
\* is never negative and is the number of script, style and iframe
\* elements still open.
C38_CurrentTagIsInnermostOpen ==
    FeedReturned =>
       \A i \in 1..(Len(call.events) + 1) :
          LET s == call.states[i]
              open == OpenElements(call.events, i - 1)
          IN  /\ StackTags(s) = open
              /\ s.block_depth >= 0
              /\ s.block_depth =
                    Cardinality({k \in 1..Len(open) :
                                    open[k] \in BLOCKED_TAGS})


Contexts == call.contexts

\* the keys with a positive recorded context, whatever its infra flag is
PositiveKeys ==
    {ContextKey(Contexts[i]) : i \in {j \in 1..Len(Contexts) :
                                          Contexts[j].positive}}

ReturnedKeys == {EntryKey(call.returned[i]) : i \in 1..Len(call.returned)}

\* C40: no context recorded by the DOM scanner is both positive and infra:
\* an attribute context is positive only for the value attribute of an
\* input, infra is only set for src, href, integrity or content attributes,
\* and text and extra-string contexts are never infra; hence the reported
\* crypto indicators are those with a positive context, the infra flag
\* ignored.
C40_PositiveNeverInfra ==
    CryptoReturned =>
       /\ \A i \in 1..Len(Contexts) :
             LET c == Contexts[i]
             IN  /\ ~(c.positive /\ c.infra)
                 /\ c.positive /\ c.attr # NoAttr /\ c.tag # "extra"
                       => c.tag = "input" /\ c.attr = "value"
                 /\ c.infra => c.attr \in INFRA_ATTR_NAMES /\ c.tag # "extra"
                 /\ c.attr = NoAttr \/ c.tag = "extra" => ~c.infra
       /\ ReturnedKeys = PositiveKeys

\* a call that recorded an infra context (a URL on an infra host in an
\* href) and a positive one, and reported the positive one's address
C40_Witness ==
    /\ CryptoReturned
    /\ \E i \in 1..Len(Contexts) :
          Contexts[i].infra /\ Contexts[i].attr = "href"
    /\ \E i \in 1..Len(Contexts) :
          /\ Contexts[i].positive
          /\ Contexts[i].tag = "input"
          /\ ContextKey(Contexts[i]) \in ReturnedKeys

=============================================================================
